---- MODULE Spec2Model ----
(***************************************************************************)
(* Model of the clawteam agent runtime: the job orchestrator               *)
(* (internal/agent/runtime.py, AgentRuntime) with its ledger of active     *)
(* jobs, and the tool invocation gate (internal/tools/engine.py,           *)
(* ToolEngine) with its registry and rate-limit counters.                  *)
(*                                                                         *)
(* Scheduling.  The program is a single asyncio event loop.  A step of the *)
(* model is a piece of a coroutine between two points where it may be      *)
(* descheduled: the awaits of the backend (chat) and of a handle's         *)
(* execute, and the entry of an `async with lock` section.  A section      *)
(* guarded by a lock holds no await, so it is one step.                    *)
(*                                                                         *)
(* Strings are sequences of tokens, so that "the error contains the agent  *)
(* id" is a statement about the value; Optional[...] fields hold None or   *)
(* NoTime when unset.                                                      *)
(***************************************************************************)
EXTENDS Integers, Sequences, FiniteSets, TLC

\* ------------------------------------------------------------------ bounds
MaxTime == 1
MaxCount == 2
\* the longest text of the exhaustive inputs of the follow-up extraction
MaxText == 5

\* --------------------------------------------------------------- constants
\* Optional[datetime] = None
NoTime == -1
\* Optional[str] = None, Optional[Any] = None
None == <<"<None>">>
NoJob == "<no job>"
NoTool == "<no tool>"

\* JobStatus
PENDING == "pending"
RUNNING == "running"
COMPLETED == "completed"
FAILED == "failed"
CANCELLED == "cancelled"
JobStatus == {PENDING, RUNNING, COMPLETED, FAILED, CANCELLED}
Terminal == {COMPLETED, FAILED, CANCELLED}

\* ToolStatus values the gate and the handles produce
UNAUTHORIZED == "unauthorized"

\* ------------------------------------------------------------- universes
JobObjs == {"J1", "J2"}
JobIds == {"job-1", "job-2", "job-9"}
AgentIds == {"summary_agent"}
ToolIds == {"memory_read", "memory_write", "limited", "limited_auth"}
UnknownTool == "not_found"
CallIds == {"call-1", "call-2"}
Callers == {"caller-1"}

\* ------------------------------------------------------------- payloads
\* A parameter payload is a dict (a set of <<key, kind of value>> items) or,
\* against the type hint, not a dict at all (None).  The kinds of value:
\* "str" a non-empty string, "emptystr" the string '', "int" an int other
\* than 0, "zero" the int 0.
NotADict == [isdict |-> FALSE, items |-> {}]
Dict(items) == [isdict |-> TRUE, items |-> items]
HasKey(p, k) == \E it \in p.items : it[1] = k
IsStr(p, k) == \E it \in p.items : it[1] = k /\ it[2] \in {"str", "emptystr"}
\* parameters.get(k, "") is truthy: `not value` is True for '' and for 0
Truthy(p, k) == \E it \in p.items : it[1] = k /\ it[2] \in {"str", "int"}

\* A call context: a dict with these keys, NoKey standing for an absent key.
NoKey == "<absent>"
Ctx(call_id, user_id, job_id, agent_id) ==
    [call_id |-> call_id, user_id |-> user_id, job_id |-> job_id, agent_id |-> agent_id]
\* context.get("call_id", "")
CtxCallId(ctx) == IF ctx.call_id = NoKey THEN "" ELSE ctx.call_id

\* ------------------------------------------------------------- handles
\* A handle is a Tool object; two objects may carry the same definition id.
Handle(id, inst) == [id |-> id, inst |-> inst]
NoHandle == Handle(NoTool, 0)
Handles == {Handle(id, i) : id \in ToolIds, i \in {1, 2}}

\* ToolDefinition.rate_limit = None
NoLimit == -1
\* the limit and the window (seconds) declared by the rate-limited handles
RateLimit == 2
RateWindow == 2

\* tool.definition.requires_auth
RequiresAuth(h) == h.id \in {"memory_write", "limited_auth"}
\* tool.definition.rate_limit
RateLimitOf(h) == IF h.id \in {"limited", "limited_auth"} THEN RateLimit ELSE NoLimit
\* tool.definition.rate_window; ToolDefinition's default where none is declared
DefaultRateWindow == 60
RateWindowOf(h) == IF h.id \in {"limited", "limited_auth"} THEN RateWindow ELSE DefaultRateWindow

\* ToolExecutionResult
ToolResult(tool_id, call_id, status, output, error, t) ==
    [tool_id |-> tool_id, call_id |-> call_id, status |-> status,
     output |-> output, error |-> error, started_at |-> t, completed_at |-> t]

\* What a call hands back to its caller: a value, or a raised exception
\* (described by str(e)).
Value(v) == [kind |-> "value", outcome |-> v, error |-> None]
NoOutcome == ToolResult(NoTool, "", "<none>", None, None, NoTime)
Fault(e) == [kind |-> "fault", outcome |-> NoOutcome, error |-> e]

\* What validate_parameters hands back: a bool, or a raised exception.
Verdict(b) == [kind |-> "value", ok |-> b, error |-> None]
VerdictFault(e) == [kind |-> "fault", ok |-> FALSE, error |-> e]

\* The exceptions of the model, by their str().
TypeError == <<"argument of type 'NoneType' is not iterable">>
AttributeError == <<"'NoneType' object has no attribute 'get'">>
HandleError == <<"handle error">>
BackendError == <<"backend error">>

\* tool.validate_parameters(parameters): the set of its possible results,
\* each TRUE, FALSE or a raised exception.  The two memory handles are the
\* repository's; the rate-limited handles stand for any Tool subclass.
ValidateParameters(h, p) ==
    CASE h.id = "memory_read" ->
           IF ~p.isdict THEN {VerdictFault(TypeError)}
           ELSE {Verdict(HasKey(p, "query") /\ IsStr(p, "query"))}
      [] h.id = "memory_write" ->
           IF ~p.isdict THEN {VerdictFault(TypeError)}
           ELSE {Verdict(\A k \in {"type", "scope", "summary"} : HasKey(p, k))}
      [] OTHER -> {Verdict(TRUE), Verdict(FALSE), VerdictFault(HandleError)}

\* await tool.execute(parameters, context): the set of its possible results.
\* The memory handles catch their own errors and return a FAILED result
\* whose error is str(e): the AttributeError of `parameters.get` on a payload
\* that is no dict, or the ValueError they raise on a falsy value.
Execute(h, p, ctx, t) ==
    CASE h.id = "memory_read" ->
           IF ~p.isdict
           THEN {Value(ToolResult(h.id, CtxCallId(ctx), FAILED, None, AttributeError, t))}
           ELSE IF Truthy(p, "query")
           THEN {Value(ToolResult(h.id, CtxCallId(ctx), COMPLETED, <<"memories">>, None, t))}
           ELSE {Value(ToolResult(h.id, CtxCallId(ctx), FAILED, None,
                                  <<"Query is required">>, t))}
      [] h.id = "memory_write" ->
           IF ~p.isdict
           THEN {Value(ToolResult(h.id, CtxCallId(ctx), FAILED, None, AttributeError, t))}
           ELSE IF \A k \in {"type", "scope", "summary"} : Truthy(p, k)
           THEN {Value(ToolResult(h.id, CtxCallId(ctx), COMPLETED, <<"memory_id">>, None, t))}
           ELSE {Value(ToolResult(h.id, CtxCallId(ctx), FAILED, None,
                                  <<"type, scope, and summary are required">>, t))}
      [] OTHER ->
           {Value(ToolResult(h.id, CtxCallId(ctx), COMPLETED, <<"output">>, None, t)),
            Fault(HandleError)}

\* ------------------------------------------------------------- the gate
\* ToolRegistry.get
RegistryGet(reg, tool_id) == IF tool_id \in DOMAIN reg THEN reg[tool_id] ELSE NoHandle

\* tool.definition, as far as the gate reads it
Definition(h) ==
    [id |-> h.id, requires_auth |-> RequiresAuth(h), rate_limit |-> RateLimitOf(h),
     rate_window |-> RateWindowOf(h)]
NoDefinition == [id |-> NoTool, requires_auth |-> FALSE, rate_limit |-> NoLimit, rate_window |-> 0]
\* ToolRegistry.get_definition
RegistryGetDefinition(reg, tool_id) ==
    IF RegistryGet(reg, tool_id) # NoHandle THEN Definition(RegistryGet(reg, tool_id))
    ELSE NoDefinition

\* the error ToolRegistry.register raises for an id it holds already
DuplicateError(tool_id) == <<"Tool already registered: ", tool_id>>

\* (variant: a second registration replaces the first)
RegistryRegister_Overwrite(reg, h) ==
    [ret |-> Value(NoOutcome), reg |-> [reg EXCEPT ![h.id] = h]]

\* ToolRegistry.register: what it hands back (None, or a raised ValueError)
\* and the registry after
RegistryRegister(reg, h) ==
    IF reg[h.id] # NoHandle
    THEN [ret |-> Fault(DuplicateError(h.id)), reg |-> reg]
    ELSE [ret |-> Value(NoOutcome), reg |-> [reg EXCEPT ![h.id] = h]]

\* (variant: the entry stays in the registry)
RegistryDeregister_KeepEntry(reg, tool_id) ==
    [ok |-> RegistryGet(reg, tool_id) # NoHandle, reg |-> reg]

\* ToolRegistry.deregister: the bool it returns and the registry after
RegistryDeregister(reg, tool_id) ==
    IF RegistryGet(reg, tool_id) # NoHandle
    THEN [ok |-> TRUE, reg |-> [reg EXCEPT ![tool_id] = NoHandle]]
    ELSE [ok |-> FALSE, reg |-> reg]

\* ToolEngine._check_permissions
CheckPermissions(h, ctx) ==
    IF RequiresAuth(h) /\ ctx.user_id \in {NoKey, ""} THEN FALSE ELSE TRUE

\* a window that forgets every recorded call
Prune_KeepNone(stamps, t, window) == << >>

\* the timestamps the rate check keeps: those after now - window
Prune(stamps, t, window) == SelectSeq(stamps, LAMBDA ts : ts > t - window)

\* a rate check that records the call whether or not a limit is declared
CheckRateLimit_RecordAlways(h, ctrs, t) ==
    LET kept == Prune(ctrs[h.id], t, RateWindowOf(h)) IN
    IF RateLimitOf(h) # NoLimit /\ Len(kept) >= RateLimitOf(h)
    THEN [ok |-> FALSE, counters |-> [ctrs EXCEPT ![h.id] = kept]]
    ELSE [ok |-> TRUE, counters |-> [ctrs EXCEPT ![h.id] = Append(kept, t)]]

\* a rate check whose append is lost, as when two calls read the same list
\* and the later write overwrites the earlier one
CheckRateLimit_LostAppend(h, ctrs, t) ==
    IF RateLimitOf(h) = NoLimit THEN [ok |-> TRUE, counters |-> ctrs]
    ELSE LET kept == Prune(ctrs[h.id], t, RateWindowOf(h)) IN
         IF Len(kept) >= RateLimitOf(h)
         THEN [ok |-> FALSE, counters |-> [ctrs EXCEPT ![h.id] = kept]]
         ELSE [ok |-> TRUE, counters |-> [ctrs EXCEPT ![h.id] = IF kept = << >> THEN <<t>> ELSE kept]]

\* a rate check that records the denied calls too
CheckRateLimit_RecordDenied(h, ctrs, t) ==
    IF RateLimitOf(h) = NoLimit THEN [ok |-> TRUE, counters |-> ctrs]
    ELSE LET kept == Prune(ctrs[h.id], t, RateWindowOf(h)) IN
         [ok |-> Len(kept) < RateLimitOf(h), counters |-> [ctrs EXCEPT ![h.id] = Append(kept, t)]]

\* ToolEngine._check_rate_limit: whether the call is granted, and the counters after
CheckRateLimit(h, ctrs, t) ==
    IF RateLimitOf(h) = NoLimit THEN [ok |-> TRUE, counters |-> ctrs]
    ELSE LET kept == Prune(ctrs[h.id], t, RateWindowOf(h)) IN
         IF Len(kept) >= RateLimitOf(h)
         THEN [ok |-> FALSE, counters |-> [ctrs EXCEPT ![h.id] = kept]]
         ELSE [ok |-> TRUE, counters |-> [ctrs EXCEPT ![h.id] = Append(kept, t)]]

\* (variant: the message names no tool)
NotFoundError_NoId(tool_id) == <<"Tool not found">>

\* the error execute_tool reports for an id the registry does not hold
NotFoundError(tool_id) == <<"Tool not found: ", tool_id>>

\* ToolEngine.execute_tool up to the await of the handle's execute: the
\* possible ways it goes on.  kind "value": it returns ret; "fault": an
\* exception leaves execute_tool; "dispatch": it awaits h.execute.
GateStep(kind, ret, ctrs) == [kind |-> kind, ret |-> ret, counters |-> ctrs]
\* a gate that consults the rate window before the authorization check
GateChecks_RateFirst(reg, ctrs, t, tool_id, p, ctx) ==
    LET h == RegistryGet(reg, tool_id)
        fail(status, error) == Value(ToolResult(tool_id, CtxCallId(ctx), status, None, error, t))
    IN
    IF h = NoHandle
    THEN {GateStep("value", fail(FAILED, NotFoundError(tool_id)), ctrs)}
    ELSE LET rl == CheckRateLimit(h, ctrs, t) IN
         IF ~rl.ok
         THEN {GateStep("value", fail(FAILED, <<"Rate limit exceeded">>), rl.counters)}
         ELSE IF ~CheckPermissions(h, ctx)
         THEN {GateStep("value", fail(UNAUTHORIZED, <<"Permission denied for tool execution">>), rl.counters)}
         ELSE { IF v.kind = "fault" THEN GateStep("fault", Fault(v.error), rl.counters)
                ELSE IF ~v.ok
                THEN GateStep("value", fail(FAILED, <<"Invalid parameters">>), rl.counters)
                ELSE GateStep("dispatch", Value(NoOutcome), rl.counters)
                : v \in ValidateParameters(h, p) }

\* a gate that dispatches without looking at the verdict of validate_parameters
GateChecks_NoValidation(reg, ctrs, t, tool_id, p, ctx) ==
    LET h == RegistryGet(reg, tool_id)
        fail(status, error) == Value(ToolResult(tool_id, CtxCallId(ctx), status, None, error, t))
    IN
    IF h = NoHandle
    THEN {GateStep("value", fail(FAILED, NotFoundError(tool_id)), ctrs)}
    ELSE IF ~CheckPermissions(h, ctx)
    THEN {GateStep("value", fail(UNAUTHORIZED, <<"Permission denied for tool execution">>), ctrs)}
    ELSE LET rl == CheckRateLimit(h, ctrs, t) IN
         IF ~rl.ok
         THEN {GateStep("value", fail(FAILED, <<"Rate limit exceeded">>), rl.counters)}
         ELSE {GateStep("dispatch", Value(NoOutcome), rl.counters)}

GateChecks(reg, ctrs, t, tool_id, p, ctx) ==
    LET h == RegistryGet(reg, tool_id)
        fail(status, error) == Value(ToolResult(tool_id, CtxCallId(ctx), status, None, error, t))
    IN
    IF h = NoHandle
    THEN {GateStep("value", fail(FAILED, NotFoundError(tool_id)), ctrs)}
    ELSE IF ~CheckPermissions(h, ctx)
    THEN {GateStep("value", fail(UNAUTHORIZED, <<"Permission denied for tool execution">>), ctrs)}
    ELSE LET rl == CheckRateLimit(h, ctrs, t) IN
         IF ~rl.ok
         THEN {GateStep("value", fail(FAILED, <<"Rate limit exceeded">>), rl.counters)}
         ELSE { IF v.kind = "fault" THEN GateStep("fault", Fault(v.error), rl.counters)
                ELSE IF ~v.ok
                THEN GateStep("value", fail(FAILED, <<"Invalid parameters">>), rl.counters)
                ELSE GateStep("dispatch", Value(NoOutcome), rl.counters)
                : v \in ValidateParameters(h, p) }

\* a gate without the except block: what the handle raises leaves execute_tool
GateDispatched_Reraise(tool_id, ctx, t, answer) == answer

\* (variant: the gate builds its own result from the handle's and drops
\* the output)
GateDispatched_Rewrap(tool_id, ctx, t, answer) ==
    IF answer.kind = "value"
    THEN Value(ToolResult(tool_id, CtxCallId(ctx), answer.outcome.status, None,
                          answer.outcome.error, t))
    ELSE Value(ToolResult(tool_id, CtxCallId(ctx), FAILED, None, answer.error, t))

\* ToolEngine.execute_tool from the handle's answer on: a returned value is
\* handed back as it is, a raised exception becomes a FAILED result.
GateDispatched(tool_id, ctx, t, answer) ==
    IF answer.kind = "value" THEN answer
    ELSE Value(ToolResult(tool_id, CtxCallId(ctx), FAILED, None, answer.error, t))

VARIABLES
    agent_registry,        \* AgentRuntime._agent_registry (its keys)
    jobs,                  \* the AgentJob objects the callers hold
    active_jobs,           \* AgentRuntime._active_jobs: job id -> job object
    pc,                    \* where each execute_job call stands
    resp,                  \* the backend response an execute_job call holds
    pending,               \* tool calls of that response not yet routed
    result,                \* the AgentResult an execute_job call returns
    now,                   \* datetime.utcnow()
    tools,                 \* ToolRegistry._tools: tool id -> handle
    rate_limit_counters,   \* ToolEngine._rate_limit_counters
    granted,               \* history: per tool id, the times at which _check_rate_limit,
                           \* called on its own, returned True
    denied,                \* history: per tool id, the times at which those calls
                           \* returned False, the first MaxCount of them
    batch,                 \* the execute_tools call in progress and its tasks
    gate_calls,            \* execute_tool calls made on the engine directly
    tool_results,          \* history: what execute_tool returned to each job
    cancel_true,           \* history: times cancel_job(id) returned True
    extraction,            \* a call of _extract_action_items made on its own
    last                   \* history: the last call that returned, and its value

jobVars == <<jobs, active_jobs, pc, resp, pending, result, tool_results>>
gateVars == <<tools, rate_limit_counters, gate_calls, granted, denied, batch>>
vars == <<agent_registry, jobVars, gateVars, now, cancel_true, extraction, last>>

\* ------------------------------------------------------------- job data
\* AgentJob: the fields execute_job and cancel_job read or write
AgentJob(job_id, agent_id, tools_allowed) ==
    [job_id |-> job_id, agent_id |-> agent_id, tools_allowed |-> tools_allowed,
     status |-> PENDING, started_at |-> NoTime, completed_at |-> NoTime]

\* ToolCall of the backend's response
ToolCall(id, name, parameters) == [id |-> id, name |-> name, parameters |-> parameters]
\* ChatResponse: content, tool_calls and usage
ChatResponse(content, tool_calls, input_tokens, output_tokens) ==
    [content |-> content, tool_calls |-> tool_calls,
     input_tokens |-> input_tokens, output_tokens |-> output_tokens]
NoResponse == ChatResponse(None, << >>, 0, 0)

\* AgentResult
AgentResult(job_id, agent_id, status, response, action_items, error, input_tokens, output_tokens, started_at, completed_at) ==
    [job_id |-> job_id, agent_id |-> agent_id, status |-> status,
     response |-> response, action_items |-> action_items, error |-> error,
     input_tokens |-> input_tokens, output_tokens |-> output_tokens,
     started_at |-> started_at, completed_at |-> completed_at]
NoResult == AgentResult("", "", "<none>", << >>, << >>, None, 0, 0, NoTime, NoTime)

\* (variant: the message names no agent)
AgentNotFoundError_NoId(agent_id) == <<"Agent not found">>

\* the error execute_job reports for an agent the registry does not hold
AgentNotFoundError(agent_id) == <<"Agent not found: ", agent_id>>

\* (variant: the FAILED result carries no error)
FailedResult_NoError(job, error) ==
    AgentResult(job.job_id, job.agent_id, FAILED, << >>, << >>, None, 0, 0, NoTime, NoTime)

\* AgentResult(job_id=..., agent_id=..., status=FAILED, error=...): the
\* other fields keep their defaults
FailedResult(job, error) ==
    AgentResult(job.job_id, job.agent_id, FAILED, << >>, << >>, error, 0, 0, NoTime, NoTime)

\* ------------------------------------------------- follow-up extraction
\* A text is the sequence of its characters; a word that holds no
\* whitespace, bracket or newline may stand as one element.
NewLine == "\n"
\* The characters str.strip() removes (those with str.isspace()): tab, line
\* feed, U+000B, form feed, carriage return, U+001C to U+001F, space, U+0085,
\* U+00A0, and the Unicode spaces U+1680, U+2000 to U+200A, U+2028, U+2029,
\* U+202F, U+205F, U+3000.  The characters a string of this module cannot
\* hold (those above U+00FF) are written by their code point.
Whitespace ==
    { "\t", "\n", "", "\f", "\r", "", "", "", "", " ", "", " ",
      "\\u1680", "\\u2000", "\\u2001", "\\u2002", "\\u2003", "\\u2004",
      "\\u2005", "\\u2006", "\\u2007", "\\u2008", "\\u2009", "\\u200a",
      "\\u2028", "\\u2029", "\\u202f", "\\u205f", "\\u3000" }
\* the position of the first ch in s, 0 when there is none
IndexOf(s, ch) ==
    IF \E i \in 1..Len(s) : s[i] = ch
    THEN CHOOSE i \in 1..Len(s) : s[i] = ch /\ \A k \in 1..(i - 1) : s[k] # ch
    ELSE 0
\* str.split(sep)
RECURSIVE Split(_, _)
Split(s, sep) ==
    LET i == IndexOf(s, sep) IN
    IF i = 0 THEN <<s>>
    ELSE <<SubSeq(s, 1, i - 1)>> \o Split(SubSeq(s, i + 1, Len(s)), sep)
\* str.lstrip(), str.rstrip(), str.strip()
RECURSIVE LStrip(_)
LStrip(s) == IF s # << >> /\ Head(s) \in Whitespace THEN LStrip(Tail(s)) ELSE s
RECURSIVE RStrip(_)
RStrip(s) ==
    IF s # << >> /\ s[Len(s)] \in Whitespace THEN RStrip(SubSeq(s, 1, Len(s) - 1)) ELSE s
Strip(s) == RStrip(LStrip(s))
\* str.startswith(prefix)
StartsWith(s, prefix) == Len(s) >= Len(prefix) /\ SubSeq(s, 1, Len(prefix)) = prefix
\* line.split(sep, 1)[-1]: what follows the first sep, the whole line when
\* it holds no sep
SplitOnceLast(s, sep) ==
    LET i == IndexOf(s, sep) IN
    IF i = 0 THEN s ELSE SubSeq(s, i + 1, Len(s))
\* ActionItem(description=desc): the other fields keep their defaults
ActionItem(description) == [description |-> description]

\* the body of the loop of _extract_action_items: the items one line adds
ExtractLine(raw) ==
    LET line == Strip(raw)
        desc == Strip(SplitOnceLast(line, "]"))
    IN IF StartsWith(line, <<"-", " ", "[">>) \/ StartsWith(line, <<"*", " ", "[">>)
       THEN IF desc # << >> /\ ~StartsWith(desc, <<"[">>)
            THEN <<ActionItem(desc)>> ELSE << >>
       ELSE << >>
RECURSIVE Concat(_)
Concat(ss) == IF ss = << >> THEN << >> ELSE Head(ss) \o Concat(Tail(ss))
\* AgentRuntime._extract_action_items
ExtractActionItems(content) ==
    LET lines == Split(content, NewLine) IN
    Concat([i \in 1..Len(lines) |-> ExtractLine(lines[i])])

\* (variant: the follow-up items are not extracted)
ProcessResponse_NoItems(job, response, t) ==
    AgentResult(job.job_id, job.agent_id, COMPLETED, response.content, << >>, None,
                response.input_tokens, response.output_tokens, job.started_at, t)

\* AgentRuntime._process_response
ProcessResponse(job, response, t) ==
    AgentResult(job.job_id, job.agent_id, COMPLETED, response.content,
                ExtractActionItems(response.content), None,
                response.input_tokens, response.output_tokens, job.started_at, t)

\* (variant: the context names a user)
JobContext_WithUser(job, tool_call) == Ctx(tool_call.id, "user-1", job.job_id, job.agent_id)

\* the context _handle_tool_calls gives the gate for one requested call
JobContext(job, tool_call) == Ctx(tool_call.id, NoKey, job.job_id, job.agent_id)

\* what the backend may answer in the model: a text, and no tool call, one
\* or two
Content == <<"All good">>
ReadCall == ToolCall("call-1", "memory_read", Dict({<<"query", "str">>}))
BadReadCall == ToolCall("call-1", "memory_read", Dict({}))
WriteCall == ToolCall("call-1", "memory_write", Dict({}))
LimitedCall == ToolCall("call-2", "limited", Dict({}))
UnknownCall == ToolCall("call-2", UnknownTool, Dict({}))
Responses ==
    {ChatResponse(Content, calls, 3, 5) :
        calls \in {<< >>, <<BadReadCall, LimitedCall>>, <<WriteCall, ReadCall>>,
                   <<LimitedCall, UnknownCall>>}}

\* _handle_tool_calls from the call at the head of `calls` up to the next
\* await of a handle's execute: the ways it can go on.  "done": the loop
\* ended; "fault": an exception left execute_tool; "dispatch": the head of
\* rest is awaiting its handle.  log holds the results execute_tool returned.
Routed(kind, rest, ctrs, error, log) ==
    [kind |-> kind, rest |-> rest, counters |-> ctrs, error |-> error, log |-> log]
RECURSIVE RouteCalls(_, _, _, _, _)
RouteCalls(reg, ctrs, t, job, calls) ==
    IF calls = << >> THEN {Routed("done", << >>, ctrs, None, << >>)}
    ELSE LET c == Head(calls) IN
         UNION { CASE g.kind = "value" ->
                        {[r EXCEPT !.log = <<g.ret.outcome>> \o @] :
                            r \in RouteCalls(reg, g.counters, t, job, Tail(calls))}
                   [] g.kind = "fault" ->
                        {Routed("fault", << >>, g.counters, g.ret.error, << >>)}
                   [] OTHER ->
                        {Routed("dispatch", calls, g.counters, None, << >>)}
                 : g \in GateChecks(reg, ctrs, t, c.name, c.parameters, JobContext(job, c)) }

\* the last call that returned to its caller: the operation, the id it was
\* given, its arguments and what it handed back
Args(tool_id, parameters, context) ==
    [tool_id |-> tool_id, parameters |-> parameters, context |-> context]
NoArgs == Args("", NotADict, Ctx(NoKey, NoKey, NoKey, NoKey))
Returned(op, id, args, ret) == [op |-> op, id |-> id, args |-> args, ret |-> ret]
NoCall == Returned("<none>", "", NoArgs, Value(NoOutcome))
\* a bool handed back by cancel_job or deregister
Bool(b) == [kind |-> "value", outcome |-> NoOutcome, error |-> IF b THEN <<"True">> ELSE <<"False">>]

\* ------------------------------------------------------------- initial state
\* AgentRuntime.__init__, and the jobs the callers have built (AgentJob
\* defaults: status PENDING, no timestamps), each with its own job id.
InitJobs ==
    /\ agent_registry = {}
    /\ jobs = [j \in JobObjs |->
                 IF j = "J1" THEN AgentJob("job-1", "summary_agent", << >>)
                 ELSE AgentJob("job-2", "summary_agent", <<"memory_read">>)]
    /\ active_jobs = [id \in JobIds |-> NoJob]
    /\ pc = [j \in JobObjs |-> "idle"]
    /\ resp = [j \in JobObjs |-> NoResponse]
    /\ pending = [j \in JobObjs |-> << >>]
    /\ result = [j \in JobObjs |-> NoResult]
    /\ tool_results = [j \in JobObjs |-> << >>]
    /\ cancel_true = [id \in JobIds |-> 0]
    /\ last = NoCall
    /\ now = 0

\* no call of _extract_action_items made on its own
NoExtraction == [state |-> "none", content |-> << >>, items |-> << >>]

\* ToolEngine.__init__: no call recorded, no call in progress
IdleCall == [pc |-> "idle", args |-> NoArgs, handle |-> NoHandle]
\* no execute_tools call made yet
NoBatch == [state |-> "idle", calls |-> << >>, context |-> Ctx(NoKey, NoKey, NoKey, NoKey), tasks |-> << >>, finished |-> << >>, results |-> << >>]
InitCounters ==
    /\ rate_limit_counters = [id \in ToolIds |-> << >>]
    /\ granted = [id \in ToolIds |-> << >>]
    /\ denied = [id \in ToolIds |-> << >>]
    /\ batch = NoBatch
    /\ gate_calls = [c \in Callers |-> IdleCall]

\* ToolRegistry.__init__: `self._tools = {}`
NoTools == [id \in ToolIds |-> NoHandle]

\* The runtime as its constructor leaves it: no agent and no tool registered.
Init ==
    /\ InitJobs
    /\ InitCounters
    /\ extraction = NoExtraction
    /\ tools = NoTools

\* ------------------------------------------------------------- the clock
Tick ==
    /\ now < MaxTime
    /\ now' = now + 1
    /\ last' = NoCall
    /\ UNCHANGED <<agent_registry, jobVars, gateVars, cancel_true, extraction>>

\* ------------------------------------------------------------- start-up
\* ToolRegistry.register, called on the registry the runtime has built
register(h) ==
    LET r == RegistryRegister(tools, h) IN
    /\ tools' = r.reg
    /\ last' = Returned("register", h.id, NoArgs, r.ret)
    /\ UNCHANGED <<agent_registry, jobVars, rate_limit_counters, gate_calls, granted, denied, batch,
                   now, cancel_true, extraction>>

\* The program that embeds the runtime registers its tools before it submits
\* anything: one handle per tool id, in this order.  JobTools are the tools
\* the backend of the jobs asks for, GateTools those the direct callers of the
\* gate ask for.
JobTools == <<"memory_read", "memory_write", "limited">>
GateTools == <<"memory_read", "memory_write", "limited", "limited_auth">>
\* h is the handle a start-up that registers `order` registers next, nothing
\* having been submitted to the runtime or to the gate yet
StartingUp(order, h) ==
    /\ \A j \in JobObjs : pc[j] = "idle" /\ jobs[j].status = PENDING
    /\ \A c \in DOMAIN gate_calls : gate_calls[c] = IdleCall
    /\ \A id \in ToolIds : rate_limit_counters[id] = << >>
    /\ batch = NoBatch
    /\ h.inst = 1
    /\ \E k \in DOMAIN order :
          /\ order[k] = h.id
          /\ tools[h.id] = NoHandle
          /\ \A m \in 1..(k - 1) : tools[order[m]] # NoHandle

\* ------------------------------------------------------------- AgentRuntime
\* AgentRuntime.register_agent: `self._agent_registry[agent.id] = agent`; an
\* agent already registered is replaced, the keys stay as they are
register_agent(agent_id) ==
    /\ agent_registry' = agent_registry \cup {agent_id}
    /\ last' = NoCall
    /\ UNCHANGED <<jobVars, gateVars, now, cancel_true, extraction>>

\* AgentRuntime.get_agent
GetAgent(agent_id) == agent_id \in agent_registry

\* (variant: an entry already in the ledger is kept)
Track_KeepFirst(ledger, j) ==
    IF ledger[jobs[j].job_id] # NoJob THEN ledger ELSE [ledger EXCEPT ![jobs[j].job_id] = j]

\* execute_job, the track section: `async with self._job_lock:
\* self._active_jobs[job.job_id] = job`
Track(ledger, j) == [ledger EXCEPT ![jobs[j].job_id] = j]

\* (variant: the finally section removes nothing)
Untrack_Skip(ledger, j) == ledger

\* execute_job, the finally section: `self._active_jobs.pop(job.job_id, None)`
Untrack(ledger, j) == [ledger EXCEPT ![jobs[j].job_id] = NoJob]

\* execute_job from its call to the end of the track section: the agent is
\* looked up; when it is absent the call returns FAILED at once.
execute_job_begin(j) ==
    /\ pc[j] = "idle"
    /\ IF ~GetAgent(jobs[j].agent_id)
       THEN /\ result' = [result EXCEPT ![j] =
                              FailedResult(jobs[j], AgentNotFoundError(jobs[j].agent_id))]
            /\ pc' = [pc EXCEPT ![j] = "returned"]
            /\ UNCHANGED active_jobs
       ELSE /\ active_jobs' = Track(active_jobs, j)
            /\ pc' = [pc EXCEPT ![j] = "tracked"]
            /\ UNCHANGED result
    /\ last' = NoCall
    /\ UNCHANGED <<agent_registry, jobs, resp, pending, tool_results, gateVars, now, cancel_true, extraction>>

\* execute_job from the release of the lock to the await of the backend:
\* status RUNNING, started_at stamped, messages and tool definitions prepared.
execute_job_start(j) ==
    /\ pc[j] = "tracked"
    /\ jobs' = [jobs EXCEPT ![j].status = RUNNING, ![j].started_at = now]
    /\ pc' = [pc EXCEPT ![j] = "llm"]
    /\ last' = NoCall
    /\ UNCHANGED <<agent_registry, active_jobs, resp, pending, result, tool_results,
                   gateVars, now, cancel_true, extraction>>

\* (variant: the try block does not stamp completed_at)
CompletePath_NoStamp(j, response) ==
    /\ jobs' = [jobs EXCEPT ![j].status = COMPLETED]
    /\ result' = [result EXCEPT ![j] = ProcessResponse(jobs[j], response, now)]
    /\ pc' = [pc EXCEPT ![j] = "finally"]

\* execute_job, the end of the try block: the result is built, then
\* `job.status = COMPLETED; job.completed_at = utcnow(); return result`
CompletePath(j, response) ==
    /\ jobs' = [jobs EXCEPT ![j].status = COMPLETED, ![j].completed_at = now]
    /\ result' = [result EXCEPT ![j] = ProcessResponse(jobs[j], response, now)]
    /\ pc' = [pc EXCEPT ![j] = "finally"]

\* (variant: the except block does not stamp completed_at)
ExceptPath_NoStamp(j, error) ==
    /\ jobs' = [jobs EXCEPT ![j].status = FAILED]
    /\ result' = [result EXCEPT ![j] = FailedResult(jobs[j], error)]
    /\ pc' = [pc EXCEPT ![j] = "finally"]

\* execute_job, `except Exception as e`
ExceptPath(j, error) ==
    /\ jobs' = [jobs EXCEPT ![j].status = FAILED, ![j].completed_at = now]
    /\ result' = [result EXCEPT ![j] = FailedResult(jobs[j], error)]
    /\ pc' = [pc EXCEPT ![j] = "finally"]

\* (variant: an outcome FAILED or UNAUTHORIZED of a requested call fails the job)
Proceed_FailOnOutcome(j, response, calls, log) ==
    \E r \in RouteCalls(tools, rate_limit_counters, now, jobs[j], calls) :
        /\ rate_limit_counters' = r.counters
        /\ tool_results' = [tool_results EXCEPT ![j] = @ \o log \o r.log]
        /\ CASE r.kind = "done" ->
                  /\ IF \E i \in 1..Len(log \o r.log) :
                           (log \o r.log)[i].status \in {FAILED, UNAUTHORIZED}
                     THEN ExceptPath(j, <<"tool call failed">>)
                     ELSE CompletePath(j, response)
                  /\ resp' = [resp EXCEPT ![j] = NoResponse]
                  /\ pending' = [pending EXCEPT ![j] = << >>]
             [] r.kind = "fault" ->
                  /\ ExceptPath(j, r.error)
                  /\ resp' = [resp EXCEPT ![j] = NoResponse]
                  /\ pending' = [pending EXCEPT ![j] = << >>]
             [] OTHER ->
                  /\ pc' = [pc EXCEPT ![j] = "tool"]
                  /\ resp' = [resp EXCEPT ![j] = response]
                  /\ pending' = [pending EXCEPT ![j] = r.rest]
                  /\ UNCHANGED <<jobs, result>>

\* execute_job goes on with the requested calls `calls` of `response`, up
\* to its next await or to the end of the try block.
Proceed(j, response, calls, log) ==
    \E r \in RouteCalls(tools, rate_limit_counters, now, jobs[j], calls) :
        /\ rate_limit_counters' = r.counters
        /\ tool_results' = [tool_results EXCEPT ![j] = @ \o log \o r.log]
        /\ CASE r.kind = "done" ->
                  /\ CompletePath(j, response)
                  /\ resp' = [resp EXCEPT ![j] = NoResponse]
                  /\ pending' = [pending EXCEPT ![j] = << >>]
             [] r.kind = "fault" ->
                  /\ ExceptPath(j, r.error)
                  /\ resp' = [resp EXCEPT ![j] = NoResponse]
                  /\ pending' = [pending EXCEPT ![j] = << >>]
             [] OTHER ->
                  /\ pc' = [pc EXCEPT ![j] = "tool"]
                  /\ resp' = [resp EXCEPT ![j] = response]
                  /\ pending' = [pending EXCEPT ![j] = r.rest]
                  /\ UNCHANGED <<jobs, result>>

\* execute_job when the backend answers: chat raises, or returns a response
\* whose tool calls, if any, are routed through the gate.
execute_job_llm(j) ==
    /\ pc[j] = "llm"
    /\ \/ /\ ExceptPath(j, BackendError)
          /\ UNCHANGED <<resp, pending, tool_results, rate_limit_counters>>
       \/ \E response \in Responses : Proceed(j, response, response.tool_calls, << >>)
    /\ last' = NoCall
    /\ UNCHANGED <<agent_registry, active_jobs, tools, gate_calls, granted, denied, batch, now, cancel_true, extraction>>

\* execute_job when the handle awaited by execute_tool answers: the gate
\* returns its result and the loop of _handle_tool_calls goes on.
execute_job_tool(j) ==
    /\ pc[j] = "tool"
    /\ LET c == Head(pending[j])
           ctx == JobContext(jobs[j], c)
       IN \E answer \in Execute(RegistryGet(tools, c.name), c.parameters, ctx, now) :
             Proceed(j, resp[j], Tail(pending[j]),
                     <<GateDispatched(c.name, ctx, now, answer).outcome>>)
    /\ last' = NoCall
    /\ UNCHANGED <<agent_registry, active_jobs, tools, gate_calls, granted, denied, batch, now, cancel_true, extraction>>

\* execute_job, the finally section, and the return to the caller
execute_job_finally(j) ==
    /\ pc[j] = "finally"
    /\ active_jobs' = Untrack(active_jobs, j)
    /\ pc' = [pc EXCEPT ![j] = "returned"]
    /\ last' = NoCall
    /\ UNCHANGED <<agent_registry, jobs, resp, pending, result, tool_results,
                   gateVars, now, cancel_true, extraction>>

\* (variant: the status is not looked at, `if job:`)
cancel_job_any_status(job_id) ==
    LET job == active_jobs[job_id] IN
    /\ IF job # NoJob
       THEN /\ jobs' = [jobs EXCEPT ![job].status = CANCELLED, ![job].completed_at = now]
            /\ active_jobs' = [active_jobs EXCEPT ![job_id] = NoJob]
            /\ last' = Returned("cancel_job", job_id, NoArgs, Bool(TRUE))
            /\ cancel_true' = [cancel_true EXCEPT ![job_id] =
                                  IF @ < MaxCount THEN @ + 1 ELSE @]
       ELSE /\ last' = Returned("cancel_job", job_id, NoArgs, Bool(FALSE))
            /\ UNCHANGED <<jobs, active_jobs, cancel_true>>
    /\ UNCHANGED <<agent_registry, pc, resp, pending, result, tool_results, gateVars, now, extraction>>

\* (variant: True is returned, the job is neither marked nor removed)
cancel_job_signal_only(job_id) ==
    LET job == active_jobs[job_id] IN
    /\ IF job # NoJob /\ jobs[job].status = RUNNING
       THEN /\ last' = Returned("cancel_job", job_id, NoArgs, Bool(TRUE))
            /\ cancel_true' = [cancel_true EXCEPT ![job_id] =
                                  IF @ < MaxCount THEN @ + 1 ELSE @]
            /\ UNCHANGED <<jobs, active_jobs>>
       ELSE /\ last' = Returned("cancel_job", job_id, NoArgs, Bool(FALSE))
            /\ UNCHANGED <<jobs, active_jobs, cancel_true>>
    /\ UNCHANGED <<agent_registry, pc, resp, pending, result, tool_results, gateVars, now, extraction>>

\* AgentRuntime.cancel_job: one section under the job lock
cancel_job(job_id) ==
    LET job == active_jobs[job_id] IN
    /\ IF job # NoJob /\ jobs[job].status = RUNNING
       THEN /\ jobs' = [jobs EXCEPT ![job].status = CANCELLED, ![job].completed_at = now]
            /\ active_jobs' = [active_jobs EXCEPT ![job_id] = NoJob]
            /\ last' = Returned("cancel_job", job_id, NoArgs, Bool(TRUE))
            /\ cancel_true' = [cancel_true EXCEPT ![job_id] =
                                  IF @ < MaxCount THEN @ + 1 ELSE @]
       ELSE /\ last' = Returned("cancel_job", job_id, NoArgs, Bool(FALSE))
            /\ UNCHANGED <<jobs, active_jobs, cancel_true>>
    /\ UNCHANGED <<agent_registry, pc, resp, pending, result, tool_results, gateVars, now, extraction>>

Next ==
    \/ \E h \in Handles : StartingUp(JobTools, h) /\ register(h)
    \/ Tick
    \/ \E a \in AgentIds : register_agent(a)
    \/ \E j \in JobObjs : execute_job_begin(j)
    \/ \E j \in JobObjs : execute_job_start(j)
    \/ \E j \in JobObjs : execute_job_llm(j)
    \/ \E j \in JobObjs : execute_job_tool(j)
    \/ \E j \in JobObjs : execute_job_finally(j)
    \/ \E id \in JobIds : cancel_job(id)

Spec == Init /\ [][Next]_vars

\* The same runtime under the scheduling of the event loop: time passes, a
\* coroutine that is ready to run is run, and a handle that is awaited
\* answers.  Nothing obliges the backend to answer, nor the callers to
\* submit or cancel.
Fairness ==
    /\ WF_vars(Tick)
    /\ \A j \in JobObjs :
          /\ WF_vars(execute_job_start(j))
          /\ WF_vars(execute_job_tool(j))
          /\ WF_vars(execute_job_finally(j))
SpecLive == Init /\ [][Next]_vars /\ Fairness

\* The runtime at one instant of the clock (termination does not depend on
\* the timestamps), under the scheduling of the event loop and with a
\* backend that answers every chat call, by a response or by an error.
NextAnswered ==
    \/ \E h \in Handles : StartingUp(JobTools, h) /\ register(h)
    \/ \E a \in AgentIds : register_agent(a)
    \/ \E j \in JobObjs : execute_job_begin(j)
    \/ \E j \in JobObjs : execute_job_start(j)
    \/ \E j \in JobObjs : execute_job_llm(j)
    \/ \E j \in JobObjs : execute_job_tool(j)
    \/ \E j \in JobObjs : execute_job_finally(j)
    \/ \E id \in JobIds : cancel_job(id)
BackendAnswers ==
    \A j \in JobObjs :
       /\ WF_vars(execute_job_start(j))
       /\ WF_vars(execute_job_llm(j))
       /\ WF_vars(execute_job_tool(j))
       /\ WF_vars(execute_job_finally(j))
SpecAnswered == Init /\ [][NextAnswered]_vars /\ BackendAnswers

\* ===================================================================
\* A backend that answers plain text: no tool call is requested
\* ===================================================================
\* "- [ ] call Bob\nok"
ItemContent == <<"-", " ", "[", " ", "]", " ", "call", " ", "Bob", NewLine, "ok">>
PlainResponses == {ChatResponse(Content, << >>, 3, 5), ChatResponse(ItemContent, << >>, 2, 4)}

\* execute_job when this backend answers
execute_job_llm_plain(j) ==
    /\ pc[j] = "llm"
    /\ \E response \in PlainResponses : Proceed(j, response, response.tool_calls, << >>)
    /\ last' = NoCall
    /\ UNCHANGED <<agent_registry, active_jobs, tools, gate_calls, granted, denied, batch, now, cancel_true, extraction>>

NextPlain ==
    \/ \E h \in Handles : StartingUp(JobTools, h) /\ register(h)
    \/ Tick
    \/ \E a \in AgentIds : register_agent(a)
    \/ \E j \in JobObjs : execute_job_begin(j)
    \/ \E j \in JobObjs : execute_job_start(j)
    \/ \E j \in JobObjs : execute_job_llm_plain(j)
    \/ \E j \in JobObjs : execute_job_finally(j)
    \/ \E id \in JobIds : cancel_job(id)

SpecPlain == Init /\ [][NextPlain]_vars

\* ===================================================================
\* A backend that requests capabilities which require authorization
\* ===================================================================
LimitedAuthCall == ToolCall("call-2", "limited_auth", Dict({}))
AuthResponses ==
    {ChatResponse(Content, calls, 3, 5) :
        calls \in {<<LimitedAuthCall, ReadCall>>, <<WriteCall, LimitedAuthCall>>}}

\* execute_job when this backend answers
execute_job_llm_auth(j) ==
    /\ pc[j] = "llm"
    /\ \E response \in AuthResponses : Proceed(j, response, response.tool_calls, << >>)
    /\ last' = NoCall
    /\ UNCHANGED <<agent_registry, active_jobs, tools, gate_calls, granted, denied, batch, now, cancel_true, extraction>>

NextAuth ==
    \/ \E h \in Handles : StartingUp(GateTools, h) /\ register(h)
    \/ Tick
    \/ \E a \in AgentIds : register_agent(a)
    \/ \E j \in JobObjs : execute_job_begin(j)
    \/ \E j \in JobObjs : execute_job_start(j)
    \/ \E j \in JobObjs : execute_job_llm_auth(j)
    \/ \E j \in JobObjs : execute_job_tool(j)
    \/ \E j \in JobObjs : execute_job_finally(j)
    \/ \E id \in JobIds : cancel_job(id)

SpecAuth == Init /\ [][NextAuth]_vars

\* ===================================================================
\* A job object submitted again
\* ===================================================================
\* execute_job called on a job object that an earlier execute_job call has
\* handed back (the retry of the submission layer): the same code runs,
\* on the job as the earlier call left it.
execute_job_again(j) ==
    /\ pc[j] = "returned"
    /\ IF ~GetAgent(jobs[j].agent_id)
       THEN /\ result' = [result EXCEPT ![j] =
                              FailedResult(jobs[j], AgentNotFoundError(jobs[j].agent_id))]
            /\ UNCHANGED <<active_jobs, pc>>
       ELSE /\ active_jobs' = Track(active_jobs, j)
            /\ pc' = [pc EXCEPT ![j] = "tracked"]
            /\ result' = [result EXCEPT ![j] = NoResult]
    /\ tool_results' = [tool_results EXCEPT ![j] = << >>]
    /\ last' = NoCall
    /\ UNCHANGED <<agent_registry, jobs, resp, pending, gateVars, now, cancel_true, extraction>>

\* one job object, its caller and a canceller
ResubmitJobs == {"J1"}
NextResubmit ==
    \/ \E h \in Handles : StartingUp(JobTools, h) /\ register(h)
    \/ Tick
    \/ \E a \in AgentIds : register_agent(a)
    \/ \E j \in ResubmitJobs : execute_job_begin(j)
    \/ \E j \in ResubmitJobs : execute_job_again(j)
    \/ \E j \in ResubmitJobs : execute_job_start(j)
    \/ \E j \in ResubmitJobs : execute_job_llm(j)
    \/ \E j \in ResubmitJobs : execute_job_tool(j)
    \/ \E j \in ResubmitJobs : execute_job_finally(j)
    \/ \E j \in ResubmitJobs : cancel_job(jobs[j].job_id)

SpecResubmit == Init /\ [][NextResubmit]_vars

\* ===================================================================
\* Two job objects built with the same job id
\* ===================================================================
InitCollide ==
    /\ agent_registry = {}
    /\ jobs = [j \in JobObjs |->
                 IF j = "J1" THEN AgentJob("job-1", "summary_agent", << >>)
                 ELSE AgentJob("job-1", "summary_agent", <<"memory_read">>)]
    /\ active_jobs = [id \in JobIds |-> NoJob]
    /\ pc = [j \in JobObjs |-> "idle"]
    /\ resp = [j \in JobObjs |-> NoResponse]
    /\ pending = [j \in JobObjs |-> << >>]
    /\ result = [j \in JobObjs |-> NoResult]
    /\ tool_results = [j \in JobObjs |-> << >>]
    /\ cancel_true = [id \in JobIds |-> 0]
    /\ last = NoCall
    /\ now = 0
    /\ extraction = NoExtraction
    /\ InitCounters
    /\ tools = NoTools

\* the runtime given two submissions that share one job id
SpecCollide == InitCollide /\ [][Next]_vars

\* ===================================================================
\* The gate called directly: ToolEngine.execute_tool
\* ===================================================================
\* the arguments the callers of the model give execute_tool
GatePayloads ==
    { NotADict, Dict({}), Dict({<<"query", "str">>}), Dict({<<"query", "emptystr">>}),
      Dict({<<"type", "str">>, <<"scope", "str">>, <<"summary", "str">>}),
      Dict({<<"type", "str">>, <<"scope", "str">>, <<"summary", "zero">>}) }
GateContexts ==
    { Ctx("call-1", "user-1", NoKey, NoKey), Ctx("call-1", NoKey, NoKey, NoKey),
      Ctx("call-1", "", NoKey, NoKey), Ctx(NoKey, "user-1", NoKey, NoKey) }

\* execute_tool from its call to its return or to the await of the handle
execute_tool_begin(c, tool_id, p, ctx) ==
    /\ gate_calls[c].pc = "idle"
    /\ \E g \in GateChecks(tools, rate_limit_counters, now, tool_id, p, ctx) :
          /\ rate_limit_counters' = g.counters
          /\ IF g.kind = "dispatch"
             THEN /\ gate_calls' = [gate_calls EXCEPT ![c] = [pc |-> "executing",
                                                    args |-> Args(tool_id, p, ctx),
                                                    handle |-> RegistryGet(tools, tool_id)]]
                  /\ last' = NoCall
             ELSE /\ last' = Returned("execute_tool", c, Args(tool_id, p, ctx), g.ret)
                  /\ UNCHANGED gate_calls
    /\ UNCHANGED <<agent_registry, jobVars, tools, granted, denied, batch, now, cancel_true, extraction>>

\* execute_tool when the handle answers: `return await tool.execute(...)`,
\* or the except block
execute_tool_end(c) ==
    /\ gate_calls[c].pc = "executing"
    /\ LET a == gate_calls[c].args IN
       \E answer \in Execute(gate_calls[c].handle, a.parameters, a.context, now) :
          last' = Returned("execute_tool", c, a,
                           GateDispatched(a.tool_id, a.context, now, answer))
    /\ gate_calls' = [gate_calls EXCEPT ![c] = IdleCall]
    /\ UNCHANGED <<agent_registry, jobVars, tools, rate_limit_counters, granted, denied, batch, now, cancel_true, extraction>>

NextGate ==
    \/ \E h \in Handles : StartingUp(GateTools, h) /\ register(h)
    \/ Tick
    \/ \E c \in Callers, tool_id \in ToolIds \cup {UnknownTool},
          p \in GatePayloads, ctx \in GateContexts : execute_tool_begin(c, tool_id, p, ctx)
    \/ \E c \in Callers : execute_tool_end(c)

\* the engine once start-up has registered one handle per tool id; no job runs
SpecGate == Init /\ [][NextGate]_vars

\* ===================================================================
\* The rate window called directly: ToolEngine._check_rate_limit
\* ===================================================================
\* _check_rate_limit(tool, context) for a registered handle
check_rate_limit(tool_id) ==
    LET h == tools[tool_id]
        rl == CheckRateLimit(h, rate_limit_counters, now)
    IN /\ rate_limit_counters' = rl.counters
       /\ granted' = IF rl.ok /\ RateLimitOf(h) # NoLimit
                     THEN [granted EXCEPT ![tool_id] = Append(@, now)]
                     ELSE granted
       /\ denied' = IF rl.ok THEN denied
                    ELSE [denied EXCEPT ![tool_id] = IF Len(@) < MaxCount THEN Append(@, now) ELSE @]
       /\ last' = Returned("_check_rate_limit", tool_id, NoArgs, Bool(rl.ok))
       /\ UNCHANGED <<agent_registry, jobVars, tools, gate_calls, batch, now, cancel_true, extraction>>

\* the tools whose rate check is called: one without a limit, one with
RateTools == <<"memory_read", "limited">>
\* The checks are made over a span of time longer than the window, which
\* itself spans more than one instant of the clock: a window can pass, and
\* two later instants still share one.
MaxElapsed == MaxTime + RateWindow + 1
\* datetime.utcnow() read later
Elapse ==
    /\ now < MaxElapsed
    /\ now' = now + 1
    /\ last' = NoCall
    /\ UNCHANGED <<agent_registry, jobVars, gateVars, cancel_true, extraction>>

NextRate ==
    \/ \E h \in Handles : StartingUp(RateTools, h) /\ register(h)
    \/ Elapse
    \/ \E tool_id \in ToolIds : tools[tool_id] # NoHandle /\ check_rate_limit(tool_id)

\* rate checks made one after another, at times that never go back
SpecRate == Init /\ [][NextRate]_vars

\* ===================================================================
\* Concurrent calls of the gate: the tasks of execute_tools, or several jobs
\* ===================================================================
ConcCallers == {"task-1", "task-2"}
ConcPayloads == {Dict({}), Dict({<<"query", "str">>})}
ConcContexts == {Ctx("call-1", "user-1", NoKey, NoKey), Ctx("call-2", NoKey, NoKey, NoKey)}
ConcTools == {"limited", "limited_auth", "memory_read"}

InitConc ==
    /\ InitJobs
    /\ extraction = NoExtraction
    /\ rate_limit_counters = [id \in ToolIds |-> << >>]
    /\ granted = [id \in ToolIds |-> << >>]
    /\ denied = [id \in ToolIds |-> << >>]
    /\ batch = NoBatch
    /\ gate_calls = [c \in ConcCallers |-> IdleCall]
    /\ tools = NoTools

NextConc ==
    \/ \E h \in Handles : StartingUp(GateTools, h) /\ register(h)
    \/ Tick
    \/ \E c \in ConcCallers, tool_id \in ConcTools,
          p \in ConcPayloads, ctx \in ConcContexts : execute_tool_begin(c, tool_id, p, ctx)
    \/ \E c \in ConcCallers : execute_tool_end(c)

SpecConc == InitConc /\ [][NextConc]_vars

\* ===================================================================
\* Batch invocation: ToolEngine.execute_tools
\* ===================================================================
\* one (tool_id, params) pair of a batch
Pair(tool_id, parameters) == [tool_id |-> tool_id, parameters |-> parameters]
BatchPairs ==
    { Pair("memory_read", Dict({})), Pair("memory_read", Dict({<<"query", "str">>})),
      Pair("memory_read", NotADict), Pair("limited", Dict({})), Pair(UnknownTool, Dict({})) }
BatchInputs == {<<a>> : a \in BatchPairs} \cup {<<a, b>> : a, b \in BatchPairs}
BatchContexts == {Ctx("call-1", "user-1", NoKey, NoKey)}

\* the task asyncio.gather makes of one execute_tool coroutine
Task(at, handle, ret) == [pc |-> at, handle |-> handle, ret |-> ret]
ReadyTask == Task("ready", NoHandle, Value(NoOutcome))
Settled(b) == \A i \in DOMAIN b.tasks : b.tasks[i].pc \in {"done", "raised"}

\* (variant: the results are listed in the order the tasks finished)
Gather_CompletionOrder(b) == [k \in 1..Len(b.finished) |-> b.tasks[b.finished[k]].ret]

\* the list asyncio.gather hands back: the results of the tasks, in the
\* order of the awaitables it was given
Gather(b) == [i \in 1..Len(b.tasks) |-> b.tasks[i].ret]

\* task i of the batch ends with ret, a value or a raised exception: only the
\* task is marked; the caller of execute_tools stays suspended in the await
TaskEnded(b, i, ret) ==
    [b EXCEPT !.tasks[i] = Task(IF ret.kind = "fault" THEN "raised" ELSE "done", NoHandle, ret),
              !.finished = Append(@, i)]
\* the exception asyncio.gather propagates: that of the task that raised first
GatherReturn(b) ==
    LET first == CHOOSE k \in DOMAIN b.finished :
                    /\ b.tasks[b.finished[k]].pc = "raised"
                    /\ \A m \in 1..(k - 1) : b.tasks[b.finished[m]].pc # "raised"
    IN Fault(b.tasks[b.finished[first]].ret.error)

\* execute_tools: one task per pair, all sharing the context
execute_tools(pairs, ctx) ==
    /\ batch.state # "running"
    /\ Settled(batch)
    /\ batch' = [state |-> "running", calls |-> pairs, context |-> ctx,
                 tasks |-> [i \in 1..Len(pairs) |-> ReadyTask],
                 finished |-> << >>, results |-> << >>]
    /\ last' = NoCall
    /\ UNCHANGED <<agent_registry, jobVars, tools, rate_limit_counters, gate_calls, granted, denied,
                   now, cancel_true, extraction>>

\* task i runs execute_tool from its start to its return or to the await
\* of the handle; the event loop starts the tasks in the order of the list
execute_tools_task_begin(i) ==
    /\ i \in DOMAIN batch.tasks
    /\ batch.tasks[i].pc = "ready"
    /\ \A k \in 1..(i - 1) : batch.tasks[k].pc # "ready"
    /\ LET c == batch.calls[i] IN
       \E g \in GateChecks(tools, rate_limit_counters, now, c.tool_id, c.parameters, batch.context) :
          /\ rate_limit_counters' = g.counters
          /\ IF g.kind = "dispatch"
             THEN /\ batch' = [batch EXCEPT !.tasks[i] =
                                  Task("executing", RegistryGet(tools, c.tool_id), Value(NoOutcome))]
                  /\ last' = NoCall
             ELSE /\ batch' = TaskEnded(batch, i, g.ret)
                  /\ last' = NoCall
    /\ UNCHANGED <<agent_registry, jobVars, tools, gate_calls, granted, denied, now, cancel_true, extraction>>

\* task i when its handle answers
execute_tools_task_end(i) ==
    /\ i \in DOMAIN batch.tasks
    /\ batch.tasks[i].pc = "executing"
    /\ LET c == batch.calls[i] IN
       \E answer \in Execute(batch.tasks[i].handle, c.parameters, batch.context, now) :
          LET ret == GateDispatched(c.tool_id, batch.context, now, answer) IN
          /\ batch' = TaskEnded(batch, i, ret)
          /\ last' = NoCall
    /\ UNCHANGED <<agent_registry, jobVars, tools, rate_limit_counters, gate_calls, granted, denied,
                   now, cancel_true, extraction>>

\* execute_tools returns once every task has returned
execute_tools_return ==
    /\ batch.state = "running"
    /\ \A i \in DOMAIN batch.tasks : batch.tasks[i].pc = "done"
    /\ batch' = [batch EXCEPT !.state = "returned", !.results = Gather(batch)]
    /\ last' = Returned("execute_tools", "batch", NoArgs, Value(NoOutcome))
    /\ UNCHANGED <<agent_registry, jobVars, tools, rate_limit_counters, gate_calls, granted, denied,
                   now, cancel_true, extraction>>

\* the caller of execute_tools is resumed with the exception of a task: the
\* done callback of gather and the wake-up of the caller are queued behind the
\* first steps of the tasks gather has scheduled, so no task is still to
\* start; the tasks that are awaiting their handle run on
execute_tools_raise ==
    /\ batch.state = "running"
    /\ \E i \in DOMAIN batch.tasks : batch.tasks[i].pc = "raised"
    /\ \A i \in DOMAIN batch.tasks : batch.tasks[i].pc # "ready"
    /\ batch' = [batch EXCEPT !.state = "raised"]
    /\ last' = Returned("execute_tools", "batch", NoArgs, GatherReturn(batch))
    /\ UNCHANGED <<agent_registry, jobVars, tools, rate_limit_counters, gate_calls, granted, denied,
                   now, cancel_true, extraction>>

NextBatch ==
    \/ \E h \in Handles : StartingUp(GateTools, h) /\ register(h)
    \/ Tick
    \/ \E pairs \in BatchInputs, ctx \in BatchContexts : execute_tools(pairs, ctx)
    \/ \E i \in DOMAIN batch.tasks : execute_tools_task_begin(i)
    \/ \E i \in DOMAIN batch.tasks : execute_tools_task_end(i)
    \/ execute_tools_return
    \/ execute_tools_raise

\* one caller issuing batches, one at a time
SpecBatch == Init /\ [][NextBatch]_vars

\* ===================================================================
\* The registry: ToolRegistry.register / deregister / get / get_definition
\* ===================================================================
\* what a lookup hands back: the handle and the definition found, or the
\* empty result (NoHandle, NoDefinition)
Found(h, d) == [kind |-> "value", outcome |-> NoOutcome, error |-> None, handle |-> h, definition |-> d]

deregister(tool_id) ==
    LET r == RegistryDeregister(tools, tool_id) IN
    /\ tools' = r.reg
    /\ last' = Returned("deregister", tool_id, NoArgs, Bool(r.ok))
    /\ UNCHANGED <<agent_registry, jobVars, rate_limit_counters, gate_calls, granted, denied, batch,
                   now, cancel_true, extraction>>

get(tool_id) ==
    /\ last' = Returned("get", tool_id, NoArgs, Found(RegistryGet(tools, tool_id), NoDefinition))
    /\ UNCHANGED <<agent_registry, jobVars, gateVars, now, cancel_true, extraction>>

get_definition(tool_id) ==
    /\ last' = Returned("get_definition", tool_id, NoArgs,
                        Found(NoHandle, RegistryGetDefinition(tools, tool_id)))
    /\ UNCHANGED <<agent_registry, jobVars, gateVars, now, cancel_true, extraction>>

RegistryTools == {"memory_read", "limited", UnknownTool}
RegistryPayloads == {Dict({<<"query", "str">>})}
RegistryContexts == {Ctx("call-1", "user-1", NoKey, NoKey)}

NextRegistry ==
    \/ Tick
    \/ \E h \in Handles : register(h)
    \/ \E tool_id \in ToolIds \cup {UnknownTool} : deregister(tool_id)
    \/ \E tool_id \in ToolIds \cup {UnknownTool} : get(tool_id)
    \/ \E tool_id \in ToolIds \cup {UnknownTool} : get_definition(tool_id)
    \/ \E c \in Callers, tool_id \in RegistryTools, p \in RegistryPayloads,
          ctx \in RegistryContexts : execute_tool_begin(c, tool_id, p, ctx)
    \/ \E c \in Callers : execute_tool_end(c)

\* the registry changed while the gate is in use
SpecRegistry == Init /\ [][NextRegistry]_vars

\* ===================================================================
\* Follow-up extraction called directly: AgentRuntime._extract_action_items
\* ===================================================================
\* the characters of the exhaustive inputs
Alphabet == {"-", "*", " ", "[", "]", "a", NewLine, "\r"}
\* "- [ ] call Bob\nsome text\n* [x] ship it"
BobText ==
    <<"-", " ", "[", " ", "]", " ", "call", " ", "Bob", NewLine,
      "some", " ", "text", NewLine,
      "*", " ", "[", "x", "]", " ", "ship", " ", "it">>
\* "  - [] a ] b\n- [x\n* [ ] [a]\n- [ ]"
OddText ==
    <<" ", " ", "-", " ", "[", "]", " ", "a", " ", "]", " ", "b", NewLine,
      "-", " ", "[", "x", NewLine,
      "*", " ", "[", " ", "]", " ", "[", "a", "]", NewLine,
      "-", " ", "[", " ", "]">>
Texts ==
    UNION {[1..n -> Alphabet] : n \in 0..MaxText} \cup {BobText, OddText, Content}

InitExtract ==
    /\ InitJobs
    /\ InitCounters
    /\ tools = NoTools
    /\ extraction \in {[state |-> "given", content |-> c, items |-> << >>] : c \in Texts}

\* self._extract_action_items(content); the text may be given again
extract_action_items ==
    /\ extraction.state \in {"given", "returned"}
    /\ extraction' = [extraction EXCEPT !.state = "returned",
                                        !.items = ExtractActionItems(extraction.content)]
    /\ last' = NoCall
    /\ UNCHANGED <<agent_registry, jobVars, gateVars, now, cancel_true>>

NextExtract == extract_action_items

SpecExtract == InitExtract /\ [][NextExtract]_vars

\* ===================================================================
\* Properties of the job ledger and of execute_job / cancel_job
\* ===================================================================
IdOf(j) == jobs[j].job_id
Contains(str, token) == \E i \in 1..Len(str) : str[i] = token
\* the step is a return of cancel_job(id); stuttering steps are set aside by [A]_vars
CancelReturns(id) == last'.op = "cancel_job" /\ last'.id = id
CancelTrue == last'.ret = Bool(TRUE)

\* C1: a job's status only ever moves PENDING -> RUNNING -> one of
\* COMPLETED, FAILED, CANCELLED, and never leaves a terminal status.
StatusMoves == {<<PENDING, RUNNING>>} \cup ({RUNNING} \X Terminal)
C1_StatusStateMachine ==
    [][\A j \in JobObjs :
          jobs'[j].status # jobs[j].status =>
              <<jobs[j].status, jobs'[j].status>> \in StatusMoves]_vars

\* C2: once cancel_job(id) has returned True for a job, its execute_job
\* call never hands back a COMPLETED outcome and the job is never marked
\* COMPLETED.
C2_CancelledNeverCompletes ==
    \A j \in JobObjs :
        cancel_true[IdOf(j)] > 0 =>
            /\ jobs[j].status # COMPLETED
            /\ result[j].status # COMPLETED

\* C3: cancel_job(id) returns True exactly when the ledger holds an entry
\* for id whose status is RUNNING; then, in that one step, the job becomes
\* CANCELLED, completed_at is stamped and the entry is removed; otherwise it
\* returns False and the ledger and every job are left as they were.
C3_CancelAtomic ==
    [][\A id \in JobIds :
          CancelReturns(id) =>
              LET job == active_jobs[id]
                  running == job # NoJob /\ jobs[job].status = RUNNING
              IN /\ CancelTrue <=> running
                 /\ running =>
                      /\ jobs'[job].status = CANCELLED
                      /\ jobs'[job].completed_at = now
                      /\ jobs'[job].started_at = jobs[job].started_at
                      /\ \A k \in JobObjs \ {job} : jobs'[k] = jobs[k]
                      /\ active_jobs'[id] = NoJob
                      /\ \A i \in JobIds \ {id} : active_jobs'[i] = active_jobs[i]
                 /\ ~running => UNCHANGED <<jobs, active_jobs>>]_vars
C3_Witness ==
    \E j \in JobObjs :
        /\ last = Returned("cancel_job", IdOf(j), NoArgs, Bool(TRUE))
        /\ jobs[j].status = CANCELLED
        /\ jobs[j].completed_at = now
        /\ active_jobs[IdOf(j)] = NoJob

\* C4: cancel_job(id) returns True at most once for a job id: a call after
\* a successful cancel of that id returns False, and so does a call made
\* after the job's execute_job has returned.
C4_CancelAtMostOnce ==
    [][\A id \in JobIds :
          /\ cancel_true'[id] <= 1
          /\ CancelReturns(id) /\ cancel_true[id] > 0 => ~CancelTrue
          /\ CancelReturns(id) /\ (\E j \in JobObjs : IdOf(j) = id /\ pc[j] = "returned")
                => ~CancelTrue]_vars


\* C5: cancel_job never returns True for a job that execute_job has
\* already marked COMPLETED or FAILED, also when it runs between that
\* assignment and the final untrack.
C5_NoCancelAfterCompletion ==
    [][\A id \in JobIds :
          CancelReturns(id) /\ CancelTrue =>
              \A j \in JobObjs : IdOf(j) = id => jobs[j].status \notin {COMPLETED, FAILED}]_vars
C5_Witness ==
    \E j \in JobObjs :
        /\ pc[j] = "finally"
        /\ jobs[j].status \in {COMPLETED, FAILED}
        /\ active_jobs[IdOf(j)] = j
        /\ last = Returned("cancel_job", IdOf(j), NoArgs, Bool(FALSE))

\* C6: for a job whose agent is not registered, execute_job returns FAILED
\* with an error that contains the agent id, and the call leaves the
\* ledger, the job's status and its timestamps as they were.
C6_AgentNotFound ==
    [][\A j \in JobObjs :
          pc[j] = "idle" /\ pc'[j] # "idle" /\ jobs[j].agent_id \notin agent_registry =>
              /\ pc'[j] = "returned"
              /\ result'[j].status = FAILED
              /\ Contains(result'[j].error, jobs[j].agent_id)
              /\ active_jobs' = active_jobs
              /\ jobs' = jobs]_vars
C6_Witness ==
    \E j \in JobObjs :
        /\ pc[j] = "returned"
        /\ jobs[j].status = PENDING
        /\ result[j].status = FAILED
        /\ Contains(result[j].error, jobs[j].agent_id)

\* C7: when execute_job has returned, on whatever path, the ledger holds no
\* entry for the job's id; the final untrack of an id that is already
\* absent changes nothing.
C7_UntrackedOnReturn ==
    [][\A j \in JobObjs :
          /\ pc'[j] = "returned" => active_jobs'[IdOf(j)] = NoJob
          /\ pc[j] = "finally" /\ pc'[j] = "returned" /\ active_jobs[IdOf(j)] = NoJob
                => active_jobs' = active_jobs]_vars
C7_Witness ==
    \E j, k \in JobObjs :
        /\ pc[j] = "returned" /\ result[j].status = COMPLETED
        /\ pc[k] = "returned" /\ result[k].status = FAILED /\ jobs[k].status = FAILED
        /\ active_jobs = [id \in JobIds |-> NoJob]

\* C8: an error raised by the backend or while the requested calls are
\* routed is contained: execute_job hands back a FAILED outcome carrying
\* the error's description and no response text, the job is FAILED and
\* completed_at is stamped.
C8_ErrorsContained ==
    [][\A j \in JobObjs :
          pc[j] \in {"llm", "tool"} /\ pc'[j] # pc[j] /\ result'[j].status # COMPLETED
          /\ pc'[j] # "tool" =>
              /\ pc'[j] = "finally"
              /\ result'[j].status = FAILED
              /\ result'[j].error \in {BackendError, HandleError}
              /\ result'[j].response = << >>
              /\ jobs'[j].status = FAILED
              /\ jobs'[j].completed_at = now]_vars
C8_Witness ==
    \E j, k \in JobObjs :
        /\ pc[j] = "returned" /\ result[j].status = FAILED /\ result[j].error = BackendError
        /\ jobs[j].status = FAILED /\ jobs[j].completed_at # NoTime
        /\ pc[k] = "returned" /\ result[k].status = FAILED /\ result[k].error = HandleError

\* ===================================================================
\* Properties of the gate
\* ===================================================================
\* C9: execute_tool never raises: whatever the tool id, the payload, the
\* context and the behaviour of the handle, what the caller of the gate
\* receives is an outcome value, never a raised fault.
C9_ExecuteToolNeverRaises ==
    last.op = "execute_tool" => last.ret.kind = "value"

\* C10: when the handle's execute raises during dispatch, execute_tool
\* returns (it does not raise) an outcome FAILED whose error is the
\* description of what was raised, with the requested tool id and the
\* context's call id; what the handle returns is handed back as it is.
C10_DispatchErrorContained ==
    [][\A c \in Callers :
          gate_calls[c].pc = "executing" /\ gate_calls'[c].pc = "idle" =>
             LET a == gate_calls[c].args
                 answers == Execute(RegistryGet(tools, a.tool_id), a.parameters, a.context, now)
                 raised == {x.error : x \in {y \in answers : y.kind = "fault"}}
             IN /\ last'.op = "execute_tool" /\ last'.args = a
                /\ last'.ret.kind = "value"
                /\ last'.ret \notin answers =>
                      /\ last'.ret.outcome.status = FAILED
                      /\ last'.ret.outcome.error \in raised
                      /\ last'.ret.outcome.output = None
                      /\ last'.ret.outcome.tool_id = a.tool_id
                      /\ last'.ret.outcome.call_id = CtxCallId(a.context)]_vars
C10_Witness ==
    /\ last.op = "execute_tool" /\ last.args.tool_id = "limited"
    /\ last.ret.kind = "value"
    /\ last.ret.outcome.status = FAILED /\ last.ret.outcome.error = HandleError
    /\ last.ret.outcome.tool_id = "limited" /\ last.ret.outcome.call_id = "call-1"

\* a step in which execute_tool returns from its checks, before any dispatch
ReturnsFromChecks == last'.op = "execute_tool" /\ gate_calls[last'.id].pc = "idle"
\* the call comes without a user identity
NoUser(ctx) == ctx.user_id \in {NoKey, ""}
\* the rate window of h has no room left at time t
Exhausted(h, ctrs, t) ==
    /\ RateLimitOf(h) # NoLimit
    /\ Len(Prune(ctrs[h.id], t, RateWindowOf(h))) >= RateLimitOf(h)

\* C11: execute_tool applies its checks in the order existence,
\* authorization, rate limit, parameter validation, and the first failing
\* check alone decides the outcome: unknown id -> FAILED "not found";
\* else requires_auth without a user -> UNAUTHORIZED (the rate window is
\* not consulted, whatever its state and whatever the payload); else an
\* exhausted window -> FAILED "rate limit exceeded" whatever the payload;
\* else the payload was rejected by validate_parameters.
C11_CheckOrder ==
    [][ReturnsFromChecks =>
          LET a == last'.args
              h == RegistryGet(tools, a.tool_id)
              out(status, error) ==
                  Value(ToolResult(a.tool_id, CtxCallId(a.context), status, None, error, now))
          IN IF h = NoHandle
             THEN /\ last'.ret = out(FAILED, NotFoundError(a.tool_id))
                  /\ rate_limit_counters' = rate_limit_counters
             ELSE IF RequiresAuth(h) /\ NoUser(a.context)
             THEN /\ last'.ret = out(UNAUTHORIZED, <<"Permission denied for tool execution">>)
                  /\ rate_limit_counters' = rate_limit_counters
             ELSE IF Exhausted(h, rate_limit_counters, now)
             THEN last'.ret = out(FAILED, <<"Rate limit exceeded">>)
             ELSE \/ /\ last'.ret = out(FAILED, <<"Invalid parameters">>)
                     /\ Verdict(FALSE) \in ValidateParameters(h, a.parameters)
                  \/ /\ last'.ret.kind = "fault"
                     /\ VerdictFault(last'.ret.error) \in ValidateParameters(h, a.parameters)]_vars
\* a call without user to a capability that requires auth, whose window is
\* exhausted and whose payload is no dict, was answered UNAUTHORIZED
C11_Witness ==
    /\ last.op = "execute_tool" /\ last.args.tool_id = "limited_auth"
    /\ NoUser(last.args.context) /\ last.args.parameters = NotADict
    /\ Exhausted(tools["limited_auth"], rate_limit_counters, now)
    /\ last.ret.outcome.status = UNAUTHORIZED

\* C12: the handle's execute is awaited for a call only when the
\* capability exists, the authorization check passed, the rate window
\* granted (and recorded) the call and validate_parameters returned true;
\* a call that fails any of the four never reaches execute.
C12_ExecuteOnlyAfterChecks ==
    [][\A c \in DOMAIN gate_calls :
          gate_calls[c].pc = "idle" /\ gate_calls'[c].pc = "executing" =>
             LET a == gate_calls'[c].args
                 h == RegistryGet(tools, a.tool_id)
             IN /\ h # NoHandle
                /\ ~(RequiresAuth(h) /\ NoUser(a.context))
                /\ ~Exhausted(h, rate_limit_counters, now)
                /\ RateLimitOf(h) # NoLimit =>
                      rate_limit_counters'[h.id] =
                          Append(Prune(rate_limit_counters[h.id], now, RateWindowOf(h)), now)
                /\ Verdict(TRUE) \in ValidateParameters(h, a.parameters)]_vars
C12_Witness ==
    \E c \in DOMAIN gate_calls :
        /\ gate_calls[c].pc = "executing"
        /\ gate_calls[c].args.tool_id = "limited_auth"
        /\ gate_calls[c].args.context.user_id = "user-1"
        /\ Len(rate_limit_counters["limited_auth"]) = RateLimit

\* ===================================================================
\* Properties of the rate window
\* ===================================================================
Limited == {id \in ToolIds : RateLimitOf(tools[id]) # NoLimit}
\* a step in which _check_rate_limit(tools[id]) returns
RateCheckReturns(id) == last'.op = "_check_rate_limit" /\ last'.id = id
\* how many of the stamps lie in (t - window, t]
CountIn(stamps, t, window) ==
    Cardinality({i \in DOMAIN stamps : stamps[i] > t - window /\ stamps[i] <= t})

\* C13: for a capability with limit N and window W, after any sequence of
\* rate checks at non-decreasing times the calls granted with a timestamp
\* in (t - W, t] number at most N, for every t; a check is granted exactly
\* when fewer than N calls were granted in (now - W, now], so N + 1 checks
\* with no elapsed time give N grants and a denial, and a check made once
\* the window has passed is granted again.
C13_AtMostNPerWindow ==
    /\ [](\A id \in Limited : \A t \in 0..MaxElapsed :
             CountIn(granted[id], t, RateWindowOf(tools[id])) <= RateLimitOf(tools[id]))
    /\ [][\A id \in Limited : RateCheckReturns(id) =>
             /\ last'.ret = Bool(CountIn(granted[id], now, RateWindowOf(tools[id]))
                                    < RateLimitOf(tools[id]))
             /\ granted'[id] = IF last'.ret = Bool(TRUE) THEN Append(granted[id], now)
                               ELSE granted[id]]_vars
\* N checks of one capability with no elapsed time were granted and a
\* further one, at the same instant, denied; a check made after the window
\* had passed was granted, and so was one made later within the window of
\* that grant
C13_Witness ==
    \E id \in Limited :
       LET g == granted[id] N == RateLimitOf(tools[id]) W == RateWindowOf(tools[id]) IN
       /\ Len(g) = N + 2
       /\ \A i \in 1..N : g[i] = g[1]
       /\ denied[id] # << >> /\ denied[id][1] = g[1]
       /\ g[N + 1] > g[1] + W
       /\ g[N + 2] > g[N + 1] /\ g[N + 2] < g[N + 1] + W
       /\ last = Returned("_check_rate_limit", id, NoArgs, Bool(TRUE))

\* C15: each rate check discards exactly the recorded timestamps older
\* than now - window_seconds, so a call recorded exactly window_seconds
\* ago is retained and counts; the call is granted iff the retained count
\* is below the limit.
C15_RetainsCallAtCutoff ==
    [][\A id \in Limited : RateCheckReturns(id) =>
          LET h == tools[id]
              retained == SelectSeq(rate_limit_counters[id],
                                    LAMBDA ts : ts >= now - RateWindowOf(h))
          IN /\ last'.ret = Bool(Len(retained) < RateLimitOf(h))
             /\ rate_limit_counters'[id] =
                   IF Len(retained) < RateLimitOf(h) THEN Append(retained, now)
                   ELSE retained]_vars

\* C16: for a capability whose descriptor declares no rate limit the rate
\* check always grants and records nothing: the rate-window state is
\* unchanged by it.
C16_NoLimitNoRecord ==
    [][\A id \in ToolIds \ Limited : RateCheckReturns(id) =>
          /\ last'.ret = Bool(TRUE)
          /\ rate_limit_counters' = rate_limit_counters]_vars
C16_Witness ==
    /\ last = Returned("_check_rate_limit", "memory_read", NoArgs, Bool(TRUE))
    /\ rate_limit_counters["memory_read"] = << >>
    /\ rate_limit_counters["limited"] # << >>

\* a step in which the execute_tool call of c gets past the rate check of
\* a rate-limited capability: it is dispatched, or validate_parameters
\* rejected its payload or raised
PassesRateCheck(c, id) ==
    /\ gate_calls[c].pc = "idle"
    /\ \/ gate_calls'[c].pc = "executing" /\ gate_calls'[c].args.tool_id = id
       \/ /\ last'.op = "execute_tool" /\ last'.id = c /\ last'.args.tool_id = id
          /\ \/ last'.ret.kind = "fault"
             \/ last'.ret.outcome.error = <<"Invalid parameters">>

\* C14: with several execute_tool calls in progress at once, the
\* prune-check-append of the rate window is one atomic unit per call: a
\* call passes only if fewer than N recorded calls lie in the window, its
\* timestamp is appended to all of those, no other step touches the
\* window, and so the window never holds more than N calls.
C14_RateCheckAtomic ==
    /\ [](\A id \in Limited : Len(rate_limit_counters[id]) <= RateLimitOf(tools[id]))
    /\ [][\A id \in Limited :
            LET h == tools[id]
                kept == Prune(rate_limit_counters[id], now, RateWindowOf(h))
            IN /\ \A c \in DOMAIN gate_calls : PassesRateCheck(c, id) =>
                     /\ Len(kept) < RateLimitOf(h)
                     /\ rate_limit_counters'[id] = Append(kept, now)
               /\ rate_limit_counters'[id] \in
                     {rate_limit_counters[id], kept, Append(kept, now)}
               /\ rate_limit_counters'[id] = Append(kept, now) =>
                     \E c \in DOMAIN gate_calls : PassesRateCheck(c, id)]_vars
\* two calls of one capability in progress at once, the window full
C14_Witness ==
    /\ \A c \in ConcCallers :
          gate_calls[c].pc = "executing" /\ gate_calls[c].args.tool_id = "limited"
    /\ Len(rate_limit_counters["limited"]) = RateLimit

\* ===================================================================
\* Properties of a job's timing
\* ===================================================================
\* C17: the backend call of execute_job is bounded by the job's timeout
\* budget: an execute_job call that awaits the backend leaves the await,
\* by an answer or by the expiry of the budget, and the job does not stay
\* RUNNING and tracked forever.
C17_BackendCallBounded ==
    \A j \in JobObjs : (pc[j] = "llm") ~> (pc[j] # "llm")

\* C18: a job's completed_at is assigned exactly once, at the step that
\* moves the job into a terminal status; no later step of execute_job or
\* cancel_job assigns it again.
C18_CompletedAtOnce ==
    [][\A j \in JobObjs :
          /\ jobs[j].completed_at # NoTime => jobs'[j].completed_at = jobs[j].completed_at
          /\ jobs'[j].completed_at # jobs[j].completed_at =>
                jobs[j].status \notin Terminal /\ jobs'[j].status \in Terminal]_vars

\* C19: a job's started_at is assigned exactly once, and only by the step
\* that moves the job from PENDING to RUNNING: execute_job stamps it on
\* no job whose status is not PENDING, a job submitted again included.
C19_StartedAtOnce ==
    [][\A j \in JobObjs :
          /\ pc[j] = "tracked" /\ pc'[j] = "llm" =>
                jobs[j].status = PENDING /\ jobs[j].started_at = NoTime
          /\ jobs'[j].started_at # jobs[j].started_at =>
                jobs[j].status = PENDING /\ jobs'[j].status = RUNNING]_vars

\* C20: when execute_job returns an outcome COMPLETED, the job it ran has
\* started_at and completed_at set, with started_at <= completed_at.
C20_CompletedHasTimes ==
    [][\A j \in JobObjs :
          pc[j] = "finally" /\ pc'[j] = "returned" /\ result'[j].status = COMPLETED =>
             /\ jobs'[j].started_at # NoTime
             /\ jobs'[j].completed_at # NoTime
             /\ jobs'[j].started_at <= jobs'[j].completed_at]_vars
C20_Witness ==
    \E j \in JobObjs :
        /\ pc[j] = "returned" /\ result[j].status = COMPLETED
        /\ jobs[j].started_at # NoTime
        /\ jobs[j].started_at < jobs[j].completed_at

\* ===================================================================
\* Properties of execute_tools
\* ===================================================================
\* C21: execute_tools returns exactly one outcome per input pair and the
\* i-th outcome is the one of the i-th pair, in whatever order the tasks
\* finished: it names the pair's tool id, is the result task i produced,
\* and for a registered memory_read it is COMPLETED exactly when the i-th
\* payload carries a truthy query.
C21_BatchOrder ==
    [][batch'.state = "returned" /\ batch.state = "running" =>
          /\ Len(batch'.results) = Len(batch.calls)
          /\ \A i \in DOMAIN batch.calls :
                LET r == batch'.results[i] c == batch.calls[i] IN
                /\ r = batch.tasks[i].ret
                /\ r.kind = "value"
                /\ r.outcome.tool_id = c.tool_id
                /\ c.tool_id = "memory_read" /\ tools["memory_read"] # NoHandle =>
                      (r.outcome.status = COMPLETED <=> Truthy(c.parameters, "query"))]_vars
\* a batch returned whose second task finished first
C21_Witness ==
    /\ batch.state = "returned"
    /\ batch.finished = <<2, 1>>
    /\ batch.calls[1].tool_id = "limited" /\ batch.calls[2].tool_id = "memory_read"
    /\ batch.results[1].outcome.tool_id = "limited"
    /\ batch.results[2].outcome.status = COMPLETED

\* C22: every attempt of a batch is independent of its siblings: an
\* attempt that fails, is denied or raises does not keep the outcomes of
\* its siblings from being returned, so an outcome a task has produced is
\* never dropped by a batch that ended with a raised fault.
C22_SiblingsReturned ==
    \A i \in DOMAIN batch.tasks :
        batch.tasks[i].pc = "done" => batch.state \in {"running", "returned"}

\* ===================================================================
\* Properties of the calls a job requests
\* ===================================================================
\* C23: the calls requested in one backend response are dispatched
\* concurrently: while execute_job awaits the handle of one of them, no
\* other requested call is still waiting to be put through the gate.
C23_ConcurrentFanOut ==
    \A j \in JobObjs : pc[j] = "tool" => Tail(pending[j]) = << >>

\* C24: a job causes a handle to execute only for a capability whose id
\* is in the job's tools_allowed, whatever the backend response requests.
C24_OnlyPermittedTools ==
    \A j \in JobObjs :
        pc[j] = "tool" =>
            \E i \in DOMAIN jobs[j].tools_allowed : jobs[j].tools_allowed[i] = Head(pending[j]).name

\* C25: a FAILED outcome of execute_job and a FAILED or UNAUTHORIZED
\* outcome of execute_tool carry an error string; a CANCELLED outcome
\* carries none, and a COMPLETED outcome of execute_job carries none.
C25_ErrorStrings ==
    \A j \in JobObjs :
        /\ result[j].status = FAILED => result[j].error # None
        /\ result[j].status \in {COMPLETED, CANCELLED} => result[j].error = None
        /\ \A i \in DOMAIN tool_results[j] :
              LET r == tool_results[j][i] IN
              /\ r.status \in {FAILED, UNAUTHORIZED} => r.error # None
              /\ r.status = CANCELLED => r.error = None
C25_Witness ==
    \E j, k \in JobObjs :
        /\ pc[j] = "returned" /\ result[j].status = FAILED /\ result[j].error = BackendError
        /\ pc[k] = "returned" /\ result[k].status = COMPLETED /\ result[k].error = None
        /\ \E i \in DOMAIN tool_results[k] :
              /\ tool_results[k][i].status = UNAUTHORIZED
              /\ tool_results[k][i].error # None

\* ===================================================================
\* Properties of the ledger under a shared job id
\* ===================================================================
\* C26: two execute_job calls that use the same job id overwrite each
\* other in the ledger, last writer wins: the track section makes the
\* entry of the id refer to the job that tracks, whatever it held, and a
\* cancel_job(id) that returns True acts on the job the entry refers to
\* and on no other.
C26_LastWriterWins ==
    [][/\ \A j \in JobObjs :
             pc[j] = "idle" /\ pc'[j] = "tracked" =>
                active_jobs' = [active_jobs EXCEPT ![IdOf(j)] = j]
       /\ \A id \in JobIds :
             CancelReturns(id) /\ CancelTrue =>
                LET k == active_jobs[id] IN
                /\ k # NoJob
                /\ jobs'[k].status = CANCELLED
                /\ active_jobs'[id] = NoJob
                /\ \A m \in JobObjs \ {k} : jobs'[m] = jobs[m]]_vars
\* J1 tracked first and is still running; J2 tracked later under the same
\* id and is the one the cancellation has hit
C26_Witness ==
    /\ IdOf("J1") = IdOf("J2")
    /\ pc["J1"] = "llm" /\ jobs["J1"].status = RUNNING
    /\ jobs["J2"].status = CANCELLED
    /\ last = Returned("cancel_job", IdOf("J1"), NoArgs, Bool(TRUE))

\* C27: when execute_tool is called with an id the registry does not hold,
\* because the capability was deregistered or because the id was never
\* registered, it returns (raises nothing) an outcome FAILED with the error
\* "Tool not found: <id>", no handle is executed (the former handle of a
\* deregistered id included) and the rate window is left as it was.
C27_NotFoundAfterDeregister ==
    [][/\ ReturnsFromChecks /\ RegistryGet(tools, last'.args.tool_id) = NoHandle =>
             LET a == last'.args IN
             /\ last'.ret = Value(ToolResult(a.tool_id, CtxCallId(a.context), FAILED, None,
                                             <<"Tool not found: ", a.tool_id>>, now))
             /\ gate_calls' = gate_calls
             /\ rate_limit_counters' = rate_limit_counters
       /\ \A c \in Callers :
             gate_calls[c].pc = "idle" /\ gate_calls'[c].pc = "executing" =>
                /\ RegistryGet(tools, gate_calls'[c].args.tool_id) # NoHandle
                /\ gate_calls'[c].handle = RegistryGet(tools, gate_calls'[c].args.tool_id)]_vars
\* "limited" was called while registered (its window holds the call), was
\* deregistered, and a later call of it was answered FAILED
C27_Witness ==
    /\ tools["limited"] = NoHandle
    /\ rate_limit_counters["limited"] # << >>
    /\ last.op = "execute_tool" /\ last.args.tool_id = "limited"
    /\ last.ret.kind = "value" /\ last.ret.outcome.status = FAILED
    /\ gate_calls[last.id].pc = "idle"

\* C28: ToolRegistry.register of a tool whose id is present raises the
\* duplicate error "Tool already registered: <id>" and leaves the registry
\* as it was: every id keeps the handle it had.
C28_DuplicateRegisterRejected ==
    [][last'.op = "register" /\ RegistryGet(tools, last'.id) # NoHandle =>
          /\ last'.ret = Fault(<<"Tool already registered: ", last'.id>>)
          /\ tools' = tools
          /\ RegistryGet(tools', last'.id) = RegistryGet(tools, last'.id)
          /\ {id \in ToolIds : tools'[id] # NoHandle} = {id \in ToolIds : tools[id] # NoHandle}]_vars
\* a registration was refused for an id whose entry is the second handle
\* registered under it
C28_Witness ==
    /\ last.op = "register" /\ last.ret.kind = "fault"
    /\ last.id = "memory_write"
    /\ tools["memory_write"] = Handle("memory_write", 2)

\* C29: ToolRegistry.deregister(id) returns true exactly when an entry for
\* id was present and removes that entry and no other; for an absent id
\* get and get_definition return the empty result and raise nothing, a
\* further deregister returns false, and register of the id succeeds and
\* stores the handle given.
C29_DeregisterThenAbsent ==
    [][/\ last'.op = "deregister" =>
             /\ last'.ret = Bool(RegistryGet(tools, last'.id) # NoHandle)
             /\ RegistryGet(tools', last'.id) = NoHandle
             /\ \A id \in ToolIds \ {last'.id} : tools'[id] = tools[id]
       /\ last'.op \in {"get", "get_definition"} /\ RegistryGet(tools, last'.id) = NoHandle =>
             /\ last'.ret = Found(NoHandle, NoDefinition)
             /\ tools' = tools
       /\ last'.op = "register" /\ RegistryGet(tools, last'.id) = NoHandle =>
             /\ last'.ret = Value(NoOutcome)
             /\ tools'[last'.id] \in {h \in Handles : h.id = last'.id}
             /\ \A id \in ToolIds \ {last'.id} : tools'[id] = tools[id]]_vars
\* "memory_read" was deregistered and registered again with another handle:
\* a call dispatched to the first handle, which the registry held then, is
\* still awaiting it, and a registration is refused while the id is present
C29_Witness ==
    /\ last = Returned("register", "memory_read", NoArgs, Value(NoOutcome))
    /\ tools["memory_read"] = Handle("memory_read", 2)
    /\ \E c \in Callers :
          /\ gate_calls[c].pc = "executing"
          /\ gate_calls[c].handle = Handle("memory_read", 1)

\* C30: when the four checks passed and the handle's execute returns a
\* value, execute_tool returns that very value for the parameters and the
\* context of the call (for the memory handles, which raise nothing, the
\* outcome they computed, COMPLETED with their output); the call ends with
\* that one execution and the rate window is not touched again.
C30_HandleValueUnaltered ==
    [][\A c \in Callers :
          gate_calls[c].pc = "executing" /\ gate_calls'[c].pc = "idle" =>
             LET a == gate_calls[c].args
                 answers == Execute(gate_calls[c].handle, a.parameters, a.context, now)
                 values == {x \in answers : x.kind = "value"}
             IN /\ last'.op = "execute_tool" /\ last'.id = c /\ last'.args = a
                /\ gate_calls[c].handle = RegistryGet(tools, a.tool_id)
                /\ values = answers => last'.ret \in values
                /\ last'.ret.outcome.status = COMPLETED => last'.ret \in values
                /\ gate_calls'[c] = IdleCall
                /\ rate_limit_counters' = rate_limit_counters]_vars
\* memory_read answered COMPLETED with the output of the handle
C30_Witness ==
    /\ last.op = "execute_tool" /\ last.args.tool_id = "memory_read"
    /\ last.ret.kind = "value"
    /\ last.ret.outcome.status = COMPLETED /\ last.ret.outcome.output = <<"memories">>
    /\ last.ret.outcome.call_id = "call-1"

\* ===================================================================
\* Properties of the follow-up extraction
\* ===================================================================
\* the lines of a text, trimmed
TrimmedLines(content) ==
    LET lines == Split(content, NewLine) IN [i \in 1..Len(lines) |-> Strip(lines[i])]
\* the line begins with "- [" or "* ["
HasItemPrefix(line) ==
    StartsWith(line, <<"-", " ", "[">>) \/ StartsWith(line, <<"*", " ", "[">>)
\* the trimmed text that follows the first "]" of a line that holds one
AfterBracket(line) == Strip(SubSeq(line, IndexOf(line, "]") + 1, Len(line)))
\* C32: for every response text _extract_action_items returns, in line
\* order, exactly one item for each line that after trimming begins with
\* "- [" or "* [" and whose trimmed text after the first "]" does not start
\* with "[", the description of the item being that trimmed text; giving
\* the same text again yields the same items.
C32_ItemPerShapedLine ==
    /\ extraction.state = "returned" =>
          LET shaped(line) == /\ HasItemPrefix(line)
                              /\ IndexOf(line, "]") # 0
                              /\ ~StartsWith(AfterBracket(line), <<"[">>)
              hits == SelectSeq(TrimmedLines(extraction.content), shaped)
          IN extraction.items = [i \in 1..Len(hits) |-> ActionItem(AfterBracket(hits[i]))]
    /\ extraction.state = "returned" /\ extraction.content = BobText =>
          extraction.items = <<ActionItem(<<"call", " ", "Bob">>), ActionItem(<<"ship", " ", "it">>)>>

\* C33: the extraction skips every line that has not the shape of an item:
\* a line that begins with "- [" or "* [" and holds no "]" adds no item, so
\* every description returned is the trimmed text that followed the first
\* "]" of a line, and there are never more items than lines holding a "]".
C33_MalformedLinesSkipped ==
    extraction.state = "returned" =>
       LET lines == TrimmedLines(extraction.content)
           closed == {i \in 1..Len(lines) : IndexOf(lines[i], "]") # 0}
       IN /\ \A k \in 1..Len(extraction.items) :
                \E i \in closed : extraction.items[k].description = AfterBracket(lines[i])
          /\ Len(extraction.items) <= Cardinality(closed)

\* ===================================================================
\* Properties of a job end to end
\* ===================================================================
\* C31: for a job whose agent exists and whose permitted capability set is
\* empty, when the backend returns a text and requests no capability call,
\* execute_job returns an outcome COMPLETED whose response is the text of
\* the backend and whose token counters are the backend's, with exactly
\* the follow-up items of that text (none for "All good"); the status of
\* the job is COMPLETED and its id is absent from the ledger after the
\* return.
C31_PlainTextJob ==
    [][\A j \in JobObjs :
          /\ jobs[j].tools_allowed = << >> /\ pc[j] = "llm" /\ pc'[j] # "llm" =>
                /\ pc'[j] = "finally"
                /\ \E r \in PlainResponses :
                      result'[j] = AgentResult(jobs[j].job_id, jobs[j].agent_id, COMPLETED,
                                               r.content, ExtractActionItems(r.content), None,
                                               r.input_tokens, r.output_tokens,
                                               jobs[j].started_at, now)
                /\ result'[j].response = Content => result'[j].action_items = << >>
                /\ result'[j].response = ItemContent =>
                      result'[j].action_items = <<ActionItem(<<"call", " ", "Bob">>)>>
                /\ jobs'[j].status = COMPLETED
                /\ tool_results'[j] = << >>
          /\ jobs[j].tools_allowed = << >> /\ pc[j] = "finally" /\ pc'[j] = "returned" =>
                /\ result'[j] = result[j] /\ result[j].status = COMPLETED
                /\ jobs'[j].status = COMPLETED
                /\ active_jobs'[IdOf(j)] = NoJob]_vars
\* the job without permitted capabilities returned COMPLETED with the text
\* that holds one follow-up item
C31_Witness ==
    /\ jobs["J1"].tools_allowed = << >> /\ pc["J1"] = "returned"
    /\ result["J1"].status = COMPLETED /\ result["J1"].response = ItemContent
    /\ Len(result["J1"].action_items) = 1
    /\ result["J1"].input_tokens = 2 /\ result["J1"].output_tokens = 4
    /\ jobs["J1"].status = COMPLETED /\ active_jobs["job-1"] = NoJob

\* ===================================================================
\* Properties of the ledger's entries
\* ===================================================================
\* C34: the final untrack of an execute_job call removes only the entry
\* this call tracked: when one submission ends, the entry of another job
\* that is RUNNING stays in the ledger, so that job can still be cancelled
\* by its id.
C34_UntrackOwnEntryOnly ==
    [][\A j \in JobObjs :
          pc[j] = "finally" /\ pc'[j] = "returned" =>
             \A k \in JobObjs \ {j} :
                active_jobs[IdOf(k)] = k /\ jobs[k].status = RUNNING =>
                   active_jobs'[IdOf(k)] = k]_vars

\* C35: with distinct job ids the keys of the ledger are exactly the ids of
\* the jobs that execute_job has tracked, has not yet untracked, and that
\* were not cancelled with success; each entry refers to that job; no job
\* with status CANCELLED is in the ledger, nor one whose agent was absent.
C35_LedgerKeys ==
    /\ \A id \in JobIds :
          active_jobs[id] # NoJob <=>
             \E j \in JobObjs : /\ IdOf(j) = id
                                /\ pc[j] \in {"tracked", "llm", "tool", "finally"}
                                /\ cancel_true[id] = 0
    /\ \A id \in JobIds : active_jobs[id] # NoJob => IdOf(active_jobs[id]) = id
    /\ \A j \in JobObjs :
          /\ jobs[j].status = CANCELLED => active_jobs[IdOf(j)] = NoJob
          /\ result[j].error = AgentNotFoundError(jobs[j].agent_id) => active_jobs[IdOf(j)] = NoJob
\* one job was cancelled and still runs, out of the ledger, while the other
\* job, at the end of its try block, is still in it
C35_Witness ==
    /\ pc["J1"] = "llm" /\ jobs["J1"].status = CANCELLED /\ active_jobs["job-1"] = NoJob
    /\ pc["J2"] = "finally" /\ active_jobs["job-2"] = "J2"

\* ===================================================================
\* Properties of the calls a job makes through the gate
\* ===================================================================
\* C36: the context execute_job gives the gate names the call, the job and
\* the agent and no user, so every call a job's response requests for a
\* capability with requires_auth is answered UNAUTHORIZED: the handle of
\* such a capability is never awaited on behalf of a job and such a call
\* takes no slot of the rate window.
C36_JobCallsUnauthorized ==
    /\ \A j \in JobObjs :
          /\ \A i \in 1..Len(tool_results[j]) :
                LET o == tool_results[j][i] IN
                RequiresAuth(RegistryGet(tools, o.tool_id)) =>
                   /\ o.status = UNAUTHORIZED
                   /\ o.error = <<"Permission denied for tool execution">>
                   /\ o.output = None
          /\ pc[j] = "tool" =>
                /\ ~RequiresAuth(RegistryGet(tools, Head(pending[j]).name))
                /\ NoUser(JobContext(jobs[j], Head(pending[j])))
                /\ JobContext(jobs[j], Head(pending[j])).job_id = jobs[j].job_id
                /\ JobContext(jobs[j], Head(pending[j])).call_id = Head(pending[j]).id
    /\ \A id \in ToolIds : RequiresAuth(tools[id]) => rate_limit_counters[id] = << >>
\* a job returned after its calls of memory_write and limited_auth were
\* both answered UNAUTHORIZED
C36_Witness ==
    /\ pc["J1"] = "returned" /\ result["J1"].status = COMPLETED
    /\ Len(tool_results["J1"]) = 2
    /\ tool_results["J1"][1].tool_id = "memory_write"
    /\ tool_results["J1"][1].status = UNAUTHORIZED
    /\ tool_results["J1"][2].tool_id = "limited_auth"
    /\ tool_results["J1"][2].status = UNAUTHORIZED

\* C37: the rate window records a timestamp for a call exactly when the
\* call reached the rate check (the capability exists, the authorization
\* passed, a limit is declared) and was granted.  A call answered not
\* found or unauthorized leaves every recorded timestamp as it was, a
\* rate-limited call leaves them as they were apart from the pruning of its
\* capability, and a granted call keeps its timestamp when it then fails
\* the parameter validation or the dispatch.
C37_RecordedIffGranted ==
    [][\A c \in Callers :
          /\ /\ gate_calls[c].pc = "idle"
             /\ gate_calls'[c].pc = "executing" \/ (last'.op = "execute_tool" /\ last'.id = c)
             => LET a == IF gate_calls'[c].pc = "executing" THEN gate_calls'[c].args
                         ELSE last'.args
                    h == RegistryGet(tools, a.tool_id)
                    reached == /\ h # NoHandle
                               /\ ~(RequiresAuth(h) /\ NoUser(a.context))
                               /\ RateLimitOf(h) # NoLimit
                    kept == SelectSeq(rate_limit_counters[a.tool_id],
                                      LAMBDA ts : ts > now - RateWindowOf(h))
                IN IF ~reached
                   THEN rate_limit_counters' = rate_limit_counters
                   ELSE IF Len(kept) >= RateLimitOf(h)
                   THEN /\ rate_limit_counters' =
                              [rate_limit_counters EXCEPT ![a.tool_id] = kept]
                        /\ last'.ret.outcome.error = <<"Rate limit exceeded">>
                   ELSE rate_limit_counters' =
                           [rate_limit_counters EXCEPT ![a.tool_id] = Append(kept, now)]
          /\ gate_calls[c].pc = "executing" /\ gate_calls'[c].pc = "idle" =>
                rate_limit_counters' = rate_limit_counters]_vars
\* a call of "limited" was granted and recorded, and then refused for its
\* parameters
C37_Witness ==
    /\ last.op = "execute_tool" /\ last.args.tool_id = "limited"
    /\ last.ret.kind = "value"
    /\ last.ret.outcome.error = <<"Invalid parameters">>
    /\ rate_limit_counters["limited"] = <<now>>
    /\ rate_limit_counters["limited_auth"] = << >>

\* the outcomes the gate returned answer, in order, the first calls of r
AnswersCallsOf(outcomes, r) ==
    /\ Len(outcomes) <= Len(r.tool_calls)
    /\ \A i \in 1..Len(outcomes) :
          /\ outcomes[i].tool_id = r.tool_calls[i].name
          /\ outcomes[i].call_id = r.tool_calls[i].id

\* C38: an outcome the gate returns for a requested call does not change
\* the outcome of the job: after a FAILED or UNAUTHORIZED outcome (not
\* found, unauthorized, rate-limited, invalid parameters, the handle raised
\* in execute) the remaining calls of the response are still routed and
\* execute_job returns COMPLETED with the text of the backend; a job ends
\* FAILED only when the backend raised or a fault left execute_tool.
C38_OutcomesDoNotFailJob ==
    [][\A j \in JobObjs :
          pc[j] \in {"llm", "tool"} /\ pc'[j] # pc[j] =>
             LET rs == IF pc[j] = "tool" THEN {resp[j]} ELSE Responses
                 outs == tool_results'[j]
             IN /\ pc'[j] \in {"tool", "finally"}
                /\ pc'[j] = "finally" /\ result'[j].status = COMPLETED =>
                      /\ result'[j].response = Content
                      /\ \E r \in rs : /\ AnswersCallsOf(outs, r)
                                       /\ Len(outs) = Len(r.tool_calls)
                /\ pc'[j] = "finally" /\ result'[j].status # COMPLETED =>
                      /\ result'[j].status = FAILED
                      /\ \/ pc[j] = "llm" /\ result'[j].error = BackendError /\ outs = << >>
                         \/ \E r \in rs :
                               /\ AnswersCallsOf(outs, r)
                               /\ Len(outs) < Len(r.tool_calls)
                               /\ LET c == r.tool_calls[Len(outs) + 1] IN
                                  VerdictFault(result'[j].error) \in
                                     ValidateParameters(RegistryGet(tools, c.name), c.parameters)]_vars
\* a job returned COMPLETED although both calls it requested were answered
\* FAILED, the second because its handle raised in execute
C38_Witness ==
    /\ pc["J2"] = "returned" /\ result["J2"].status = COMPLETED
    /\ result["J2"].response = Content
    /\ Len(tool_results["J2"]) = 2
    /\ tool_results["J2"][1].status = FAILED
    /\ tool_results["J2"][1].error = <<"Invalid parameters">>
    /\ tool_results["J2"][2].status = FAILED
    /\ tool_results["J2"][2].error = HandleError

\* ===================================================================
\* Properties of termination
\* ===================================================================
\* C39: when the backend and every handle answer, by a value or by an
\* exception, then under fair scheduling every execute_job call returns
\* an outcome (no interleaving with other submissions and with cancel_job,
\* whose locked section is one step, blocks it), and once no submission is
\* in progress the ledger is empty.
C39_EveryCallReturns ==
    /\ \A j \in JobObjs :
          (pc[j] \in {"tracked", "llm", "tool", "finally"}) ~>
             (pc[j] = "returned" /\ result[j].status \in {COMPLETED, FAILED})
    /\ []((\A j \in JobObjs : pc[j] \in {"idle", "returned"}) =>
             \A id \in JobIds : active_jobs[id] = NoJob)
\* both submissions returned, one of them after a cancellation and after
\* its requested calls went through the gate; the ledger is empty
C39_Witness ==
    /\ \A j \in JobObjs : pc[j] = "returned"
    /\ cancel_true["job-1"] = 1
    /\ Len(tool_results["J1"]) = 2 /\ result["J2"].status = FAILED
    /\ \A id \in JobIds : active_jobs[id] = NoJob

\* ===================================================================
\* Properties of the recovery of the rate window
\* ===================================================================
\* C40: a denied call is not recorded, so denied attempts, however many,
\* do not postpone the recovery of the window: for a capability with a
\* limit of at least 1, a check made when more than window_seconds have
\* passed since the oldest call still counted (or when none is counted) is
\* granted.
C40_DeniedDoNotPostpone ==
    /\ [](\A id \in Limited : Len(rate_limit_counters[id]) <= RateLimitOf(tools[id]))
    /\ [][\A id \in Limited : RateCheckReturns(id) =>
             LET stamps == rate_limit_counters[id]
                 W == RateWindowOf(tools[id])
             IN /\ RateLimitOf(tools[id]) >= 1
                /\ (stamps = << >> \/ now - stamps[1] > W) => last'.ret = Bool(TRUE)
                /\ last'.ret = Bool(FALSE) =>
                      /\ Len(rate_limit_counters'[id]) <= Len(stamps)
                      /\ \A i \in 1..Len(rate_limit_counters'[id]) :
                            \E k \in 1..Len(stamps) : rate_limit_counters'[id][i] = stamps[k]
                      /\ granted'[id] = granted[id]
                /\ last'.ret \in {Bool(TRUE), Bool(FALSE)}]_vars
\* the window of "limited" was filled at time 0, MaxCount or more checks
\* were denied after that, at time 0 and again at a later time inside the
\* window, and a check made more than window_seconds after time 0 was
\* granted
C40_Witness ==
    /\ last = Returned("_check_rate_limit", "limited", NoArgs, Bool(TRUE))
    /\ Len(granted["limited"]) = RateLimit + 1
    /\ \A i \in 1..RateLimit : granted["limited"][i] = 0
    /\ granted["limited"][RateLimit + 1] = now
    /\ Len(denied["limited"]) = MaxCount
    /\ denied["limited"][1] = 0
    /\ denied["limited"][MaxCount] > 0
    /\ now > RateWindow
    /\ rate_limit_counters["limited"] = <<now>>

====
